---------------------------- MODULE Spec2Model ----------------------------
(***************************************************************************)
(* The text renderer (render_text and its addFontQuad helpers) of the two  *)
(* OSVR example programs, and main() of both with its render callbacks.    *)
(*                                                                         *)
(* Two programs are modelled: "fly" (OpenGLCoreTextureFlyExample.cpp) and  *)
(* "basic" (the second example, unnamed/part_000).  A behaviour runs one   *)
(* of them; prog says which.                                               *)
(*                                                                         *)
(* GLfloat values are kept in tenths (Fx(1) is 1.0f), so that the literals *)
(* 0.1f, 0.5f, 0.6f and 0.7f of the source are integers; float rounding is *)
(* not modelled.  FreeType's 26.6 values are kept as the integers they are.*)
(*                                                                         *)
(* Six specifications: Spec runs render_text of either example under a     *)
(* caller that hands it any text, spacing and plane; SpecMain runs main()  *)
(* of either example from its first statement (startup, fonts, the render  *)
(* loop with Render's callbacks, cleanup); SpecCtrl adds the thread of the *)
(* Windows console handler to it; SpecQuad applies the addFontQuad         *)
(* functions on their own; SpecBuild configures and builds the repository  *)
(* with CMake (CMakeLists.txt, Superbuild.cmake), and FairBuild is         *)
(* SpecBuild with every step that can run running.                         *)
(***************************************************************************)
EXTENDS Integers, Sequences, FiniteSets, TLC

VARIABLES
    prog,        \* "fly" | "basic": the program that runs
    g_face,      \* TRUE iff g_face is non-null (a face was loaded)
    g_font_tex,  \* GLuint g_font_tex (0: not generated yet)
    g_on_tex,    \* GLuint g_on_tex (fly example only)
    shaderInit,  \* SampleShader::initialized
    slot,        \* g_face->glyph: the glyph slot FT_Load_Char fills
    gl,          \* the OpenGL context state the text renderer touches
    pc,          \* position inside render_text
    rt,          \* render_text's parameters and locals
    ret,         \* render_text's return value: "none" | "true" | "false"
    log,         \* what the current render_text call has done so far
    glTouched,   \* the current call has made a GL call
    calls,       \* render_text calls started so far
    mpc,         \* position of the caller of render_text
    quadVec,     \* a vertex vector the addFontQuad functions are applied to
    quadLast,    \* the last such application: function, arguments, vector before
    quit,        \* static bool quit
    pose,        \* main()'s OSVR_PoseState pose: the room-to-world transform
    renderPose,  \* the pose the last Render(params) call was handed
    frames,      \* what each frame of the render loop read: the inputs so far
    dw,          \* DrawWorld's locals: the unread rest of the map file,
                 \* playerX, playerZ, dx, dz
    cleanedUp,   \* the cleanup at the end of main() has run
    render,      \* main()'s RenderManager* render: "null" | "live" | "deleted"
    g_ft,        \* TRUE iff g_ft is non-null (FreeType is initialised)
    face,        \* the entry of FONTS g_face was opened from (0: none)
    f,           \* the entry of FONTS the font loop is at (0: not in the loop)
    exitCode,    \* the status the process ended with: "none" (running),
                 \* "0", "1", "2", "3", "-1", or "abort"
    mainLog,     \* the calls main() has made so far, in order
    pressed,     \* a button was reported pressed in the last context.update()
    reports,     \* the button reports context.update() has yet to deliver
    ctrl,        \* CtrlHandler's calls: their number, the last result, and
                 \* the context.update() calls begun since a handled event
    cb,          \* the render callback entered last: its arguments and
                 \* what it did
    build        \* the CMake build of the repository: the configure runs of
                 \* CMakeLists.txt and the targets of Superbuild.cmake

\* the text renderer's state
textVars == <<g_face, g_font_tex, g_on_tex, shaderInit, slot, gl, pc, rt, ret,
              log, glTouched, calls>>
\* what render_text never touches
mainVars == <<quit, pose, renderPose, frames, dw, cleanedUp>>
\* main()'s startup and shutdown, and what is recorded of its run
runVars == <<render, g_ft, face, f, exitCode, mainLog, pressed, reports,
             ctrl, cb>>
\* the programs' runs do not build anything
NoBuild == [stage |-> "none"]
callerVars == <<prog, mpc, quadVec, quadLast, build, mainVars, runVars>>
vars == <<textVars, callerVars>>

-----------------------------------------------------------------------------
(* Bounds of the model *)

\* longest text handed to render_text
MaxLen == 2
\* render_text calls in one behaviour of the harness
MaxCalls == 2
\* quads appended to one vector by the addFontQuad functions
MaxQuads == 2
\* frames of the render loop in one behaviour
MaxFrames == 2
\* console events delivered to CtrlHandler
MaxEvents == 1

-----------------------------------------------------------------------------
(* Program constants *)

XY == 0
XZ == 1
YZ == 2

\* a GLfloat given as an integer literal in the source, in tenths
Fx(n) == 10 * n

\* the quotient rounded down instead, as advance >> 6 would give
CDiv_Floor(a, b) ==
    a \div b

\* C++ integer division: the quotient truncated towards zero
CDiv(a, b) ==
    IF a >= 0 THEN a \div b ELSE -((-a) \div b)

-----------------------------------------------------------------------------
(* The environment: the font face and the characters of the texts *)

Chars == {"A", "B"}

\* What FT_Load_Char(g_face, c, FT_LOAD_RENDER) leaves in the glyph slot:
\* bitmap_left, bitmap_top, bitmap.width, bitmap.rows (pixels) and the
\* advance (26.6 fixed point).
GlyphOf(c) ==
    CASE c = "A" -> [ch |-> "A", left |-> 1, top |-> 3, width |-> 2, rows |-> 3,
                     advx |-> 100, advy |-> 0]
      [] c = "B" -> [ch |-> "B", left |-> -1, top |-> 2, width |-> 1, rows |-> 2,
                     advx |-> -70, advy |-> 65]
      [] OTHER   -> [ch |-> c, left |-> 0, top |-> 4, width |-> 3, rows |-> 4,
                     advx |-> 192, advy |-> 0]

EmptySlot == [ch |-> "", left |-> 0, top |-> 0, width |-> 0, rows |-> 0,
              advx |-> 0, advy |-> 0]

Texts == UNION {[1..n -> Chars] : n \in 0..MaxLen}

\* the plane arguments tried: the three planes and one value that is none
Planes == {XY, XZ, YZ, YZ + 1}

\* the (sx, sy) spacing tried, in tenths: 0.2f across, 0.3f up
Scales == {<<2, 3>>}

\* the starting position tried, in tenths
StartPos == <<Fx(1), Fx(2), Fx(3)>>

-----------------------------------------------------------------------------
(* Font quads *)

FontVertex(p, c, t) == [pos |-> p, col |-> c, tex |-> t]

\* the second triangle listed the other way round
addFontQuad_Flipped(vertexBufferData, left, right, top, bottom, depth, R, G, B, alpha) ==
    LET col == <<R, G, B, alpha>> IN
    vertexBufferData \o
      << FontVertex(<<left,  bottom, depth>>, col, <<0, 1>>),
         FontVertex(<<right, top,    depth>>, col, <<1, 0>>),
         FontVertex(<<right, bottom, depth>>, col, <<1, 1>>),
         FontVertex(<<left,  bottom, depth>>, col, <<0, 1>>),
         FontVertex(<<right, top,    depth>>, col, <<1, 0>>),
         FontVertex(<<left,  top,    depth>>, col, <<0, 0>>) >>

addFontQuad(vertexBufferData, left, right, top, bottom, depth, R, G, B, alpha) ==
    LET col == <<R, G, B, alpha>> IN
    vertexBufferData \o
      << FontVertex(<<left,  bottom, depth>>, col, <<0, 1>>),
         FontVertex(<<right, top,    depth>>, col, <<1, 0>>),
         FontVertex(<<right, bottom, depth>>, col, <<1, 1>>),
         FontVertex(<<left,  bottom, depth>>, col, <<0, 1>>),
         FontVertex(<<left,  top,    depth>>, col, <<0, 0>>),
         FontVertex(<<right, top,    depth>>, col, <<1, 0>>) >>

addFontQuadXZ(vertexBufferData, left, right, y, maxZ, minZ, R, G, B, alpha) ==
    LET col == <<R, G, B, alpha>> IN
    vertexBufferData \o
      << FontVertex(<<left,  y, minZ>>, col, <<0, 1>>),
         FontVertex(<<right, y, maxZ>>, col, <<1, 0>>),
         FontVertex(<<right, y, minZ>>, col, <<1, 1>>),
         FontVertex(<<left,  y, minZ>>, col, <<0, 1>>),
         FontVertex(<<left,  y, maxZ>>, col, <<0, 0>>),
         FontVertex(<<right, y, maxZ>>, col, <<1, 0>>) >>

addFontQuadYZ(vertexBufferData, x, top, bot, maxZ, minZ, R, G, B, alpha) ==
    LET col == <<R, G, B, alpha>> IN
    vertexBufferData \o
      << FontVertex(<<x, bot, minZ>>, col, <<0, 1>>),
         FontVertex(<<x, top, maxZ>>, col, <<1, 0>>),
         FontVertex(<<x, bot, maxZ>>, col, <<1, 1>>),
         FontVertex(<<x, bot, minZ>>, col, <<0, 1>>),
         FontVertex(<<x, top, minZ>>, col, <<0, 0>>),
         FontVertex(<<x, top, maxZ>>, col, <<1, 0>>) >>

\* the switch without its vertexBufferData.clear() calls: quads pile up
PlaneQuad_Batched(vertexBufferData, plane, g, x, y, z, sx, sy) ==
    LET w == g.width * sx
        h == g.rows * sy
    IN  CASE plane = XY ->
               addFontQuad(vertexBufferData, x + g.left * sx, x + g.left * sx + w,
                           y + g.top * sy, y + g.top * sy - h, z,
                           Fx(1), Fx(1), Fx(1), 0)
          [] plane = XZ ->
               addFontQuadXZ(vertexBufferData, x + g.left * sx,
                             x + g.left * sx + w, y, z + g.top * sy - h,
                             z + g.top * sy, Fx(1), Fx(1), Fx(1), 0)
          [] plane = YZ ->
               addFontQuadYZ(vertexBufferData, x, y + g.top * sy,
                             y + g.top * sy - h, z + g.left * sx,
                             z + g.left * sx + w, Fx(1), Fx(1), Fx(1), 0)
          [] OTHER -> vertexBufferData

\* The switch on plane inside the glyph loop: the vertex vector after it.
\* A plane that is none of the three case labels skips the whole body, so
\* the vector is neither cleared nor refilled.
PlaneQuad(vertexBufferData, plane, g, x, y, z, sx, sy) ==
    LET w == g.width * sx
        h == g.rows * sy
    IN  CASE plane = XY ->
               LET x2 == x + g.left * sx
                   y2 == y + g.top * sy
               IN  addFontQuad(<< >>, x2, x2 + w, y2, y2 - h, z,
                               Fx(1), Fx(1), Fx(1), 0)
          [] plane = XZ ->
               LET x2 == x + g.left * sx
                   z2 == z + g.top * sy
               IN  addFontQuadXZ(<< >>, x2, x2 + w, y, z2 - h, z2,
                                 Fx(1), Fx(1), Fx(1), 0)
          [] plane = YZ ->
               LET z2 == z + g.left * sx
                   y2 == y + g.top * sy
               IN  addFontQuadYZ(<< >>, x, y2, y2 - h, z2, z2 + w,
                                 Fx(1), Fx(1), Fx(1), 0)
          [] OTHER -> vertexBufferData

\* x += (g->advance.x / 64) * sx;  y += (g->advance.y / 64) * sy;
AdvanceX(x, g, sx) == x + CDiv(g.advx, 64) * sx
AdvanceY(y, g, sy) == y + CDiv(g.advy, 64) * sy

\* no addFontQuad function has been applied yet
NoQuad == [fn |-> "none", a |-> 0, b |-> 0, c |-> 0, d |-> 0, e |-> 0,
           col |-> <<0, 0, 0, 0>>, before |-> << >>]

-----------------------------------------------------------------------------
(* The log of a render_text call *)

\* One thing the call did: op names it, ch is the character (or the message
\* text), cur the cursor <<x, y, z>> at that moment, tex the texture bound
\* to GL_TEXTURE_2D, verts the vertices involved, blend the blend state.
Event(op, ch, cur, g, verts) ==
    [op |-> op, ch |-> ch, cur |-> cur, tex |-> g.bound, verts |-> verts,
     blend |-> g.blend]

\* a line written to std::cerr
Cerr(msg) ==
    [op |-> "cerr", ch |-> msg, cur |-> <<0, 0, 0>>, tex |-> 0, verts |-> << >>,
     blend |-> FALSE]

Cursor == <<rt.x, rt.y, rt.z>>

-----------------------------------------------------------------------------
(* render_text of the fly example *)

\* glGetError() at a checkpoint: GL_NO_ERROR or an error code
GlErrors == {FALSE, TRUE}

\* the call with a vertex vector that outlives the call (a static local)
RenderTextEnter_StaticVector(text, x, y, z, sx, sy, plane) ==
    /\ calls' = calls + 1
    /\ rt' = [text |-> text, p |-> 1, x |-> x, y |-> y, z |-> z, sx |-> sx,
              sy |-> sy, plane |-> plane,
              vertexBufferData |-> rt.vertexBufferData,
              x0 |-> x, y0 |-> y, z0 |-> z, glErr |-> FALSE]
    /\ glTouched' = FALSE
    /\ IF g_face
         THEN /\ log' = << >>
              /\ ret' = "none"
              /\ pc' = "useProgram"
         ELSE /\ log' = << Cerr("render_text(): No face") >>
              /\ ret' = "false"
              /\ pc' = "done"
    /\ UNCHANGED <<g_face, g_font_tex, g_on_tex, shaderInit, slot, gl>>

\* The call and the test of g_face that opens the function.
RenderTextEnter(text, x, y, z, sx, sy, plane) ==
    /\ calls' = calls + 1
    /\ rt' = [text |-> text, p |-> 1, x |-> x, y |-> y, z |-> z, sx |-> sx,
              sy |-> sy, plane |-> plane, vertexBufferData |-> << >>,
              x0 |-> x, y0 |-> y, z0 |-> z, glErr |-> FALSE]
    /\ glTouched' = FALSE
    /\ IF g_face
         THEN /\ log' = << >>
              /\ ret' = "none"
              /\ pc' = "useProgram"
         ELSE /\ log' = << Cerr("render_text(): No face") >>
              /\ ret' = "false"
              /\ pc' = "done"
    /\ UNCHANGED <<g_face, g_font_tex, g_on_tex, shaderInit, slot, gl>>

\* a checkpoint that logs the error and carries on
CheckGlError_LogOnly(done, err, msg, next) ==
    /\ log' = log \o done \o (IF err THEN << Cerr(msg) >> ELSE << >>)
    /\ ret' = ret
    /\ pc' = next

\* err = glGetError();
\* if (err != GL_NO_ERROR) { std::cerr << msg << err; return false; }
\* done is what the GL calls before the checkpoint add to the log.
CheckGlError(done, err, msg, next) ==
    IF err
      THEN /\ log' = log \o done \o << Cerr(msg) >>
           /\ ret' = "false"
           /\ pc' = "done"
      ELSE /\ log' = log \o done
           /\ ret' = ret
           /\ pc' = next

\* what glGetError() answered at the checkpoints of this call, kept in rt
NoteGlError(err) == [rt EXCEPT !.glErr = @ \/ err]

\* sampleShader.useProgram(projection, modelView) and the checkpoint after
\* it.  The first use compiles and links the shaders (SampleShader::init);
\* checkShaderError and checkProgramError throw when that fails, and the
\* exception leaves render_text.
RT_UseProgram ==
    /\ prog = "fly"
    /\ pc = "useProgram"
    /\ \E built \in (IF shaderInit THEN {TRUE} ELSE BOOLEAN), err \in GlErrors :
         /\ glTouched' = TRUE
         /\ IF built
              THEN /\ shaderInit' = TRUE
                   /\ rt' = NoteGlError(err)
                   /\ CheckGlError(<< >>, err,
                                   "render_text(): Error after use program",
                                   "activeTexture")
              ELSE /\ shaderInit' = shaderInit
                   /\ rt' = rt
                   /\ log' = Append(log, Event("throw", "", Cursor, gl, << >>))
                   /\ ret' = ret
                   /\ pc' = "thrown"
    /\ UNCHANGED <<g_face, g_font_tex, g_on_tex, slot, gl, calls, callerVars>>

\* glActiveTexture(GL_TEXTURE0) and its checkpoint
RT_ActiveTexture ==
    /\ prog = "fly"
    /\ pc = "activeTexture"
    /\ \E err \in GlErrors :
         /\ rt' = NoteGlError(err)
         /\ CheckGlError(<< >>, err, "render_text(): Error after texture set",
                         "blend")
    /\ UNCHANGED <<g_face, g_font_tex, g_on_tex, shaderInit, slot, gl,
                   glTouched, calls, callerVars>>

\* glEnable(GL_BLEND); glBlendFunc(...) and the checkpoint
RT_EnableBlend ==
    /\ prog = "fly"
    /\ pc = "blend"
    /\ gl' = [gl EXCEPT !.blend = TRUE]
    /\ \E err \in GlErrors :
         /\ rt' = NoteGlError(err)
         /\ CheckGlError(<< >>, err, "render_text(): Error after blend enable",
                         "bindTexture")
    /\ UNCHANGED <<g_face, g_font_tex, g_on_tex, shaderInit, slot,
                   glTouched, calls, callerVars>>

\* if (!g_font_tex) glGenTextures(1, &g_font_tex);
\* glBindTexture(GL_TEXTURE_2D, g_font_tex); and the checkpoint
GenFontTexture_EveryCall(tex, names) ==
    names + 1

GenFontTexture(tex, names) ==
    IF tex = 0 THEN names + 1 ELSE tex

RT_BindFontTexture ==
    /\ prog = "fly"
    /\ pc = "bindTexture"
    /\ g_font_tex' = GenFontTexture(g_font_tex, gl.names)
    /\ gl' = [gl EXCEPT !.names = IF g_font_tex' > @ THEN g_font_tex' ELSE @,
                        !.bound = g_font_tex']
    /\ \E err \in GlErrors :
         /\ rt' = NoteGlError(err)
         /\ CheckGlError(<< >>, err, "render_text(): Error binding texture",
                         "loop")
    /\ UNCHANGED <<g_face, g_on_tex, shaderInit, slot, glTouched, calls,
                   callerVars>>

\* for (p = text; *p; p++) { if (FT_Load_Char(g_face, *p, FT_LOAD_RENDER))
\* continue; ...
RT_LoadChar ==
    /\ prog = "fly"
    /\ pc = "loop"
    /\ rt.p <= Len(rt.text)
    /\ \E loaded \in BOOLEAN :
         LET c == rt.text[rt.p] IN
         IF loaded
           THEN /\ slot' = GlyphOf(c)
                /\ log' = Append(log, Event("load", c, Cursor, gl, << >>))
                /\ rt' = rt
                /\ pc' = "texParams"
           ELSE /\ slot' = slot
                /\ log' = Append(log, Event("loadfail", c, Cursor, gl, << >>))
                /\ rt' = [rt EXCEPT !.p = @ + 1]
                /\ pc' = "loop"
    /\ UNCHANGED <<g_face, g_font_tex, g_on_tex, shaderInit, gl, ret,
                   glTouched, calls, callerVars>>

\* glTexParameteri x4, glPixelStorei(GL_UNPACK_ALIGNMENT, 1),
\* glPixelStorei(GL_UNPACK_ROW_LENGTH, g->bitmap.width) and the checkpoint
RT_TexParams ==
    /\ prog = "fly"
    /\ pc = "texParams"
    /\ gl' = [gl EXCEPT !.align = 1, !.rowlen = slot.width]
    /\ \E err \in GlErrors :
         /\ rt' = NoteGlError(err)
         /\ CheckGlError(<< >>, err,
                         "render_text(): Error setting texture params",
                         "texImage")
    /\ UNCHANGED <<g_face, g_font_tex, g_on_tex, shaderInit, slot,
                   glTouched, calls, callerVars>>

\* glTexImage2D(GL_TEXTURE_2D, 0, ..., g->bitmap.buffer) and the checkpoint:
\* the image of the bound texture is replaced by the glyph's bitmap.
RT_TexImage ==
    /\ prog = "fly"
    /\ pc = "texImage"
    /\ gl' = [gl EXCEPT !.image[gl.bound] = slot.ch]
    /\ \E err \in GlErrors :
         /\ rt' = NoteGlError(err)
         /\ CheckGlError(<< Event("upload", slot.ch, Cursor, gl, << >>) >>, err,
                         "render_text(): Error writing texture", "quad")
    /\ UNCHANGED <<g_face, g_font_tex, g_on_tex, shaderInit, slot,
                   glTouched, calls, callerVars>>

\* the quad built after the cursor has moved past the glyph
RT_PlaneQuad_AfterAdvance ==
    /\ prog = "fly"
    /\ pc = "quad"
    /\ LET v == PlaneQuad(rt.vertexBufferData, rt.plane, slot,
                          AdvanceX(rt.x, slot, rt.sx), AdvanceY(rt.y, slot, rt.sy),
                          rt.z, rt.sx, rt.sy)
       IN  /\ rt' = [rt EXCEPT !.vertexBufferData = v]
           /\ log' = Append(log, Event("quad", slot.ch, Cursor, gl, v))
    /\ pc' = "bufferData"
    /\ UNCHANGED <<g_face, g_font_tex, g_on_tex, shaderInit, slot, gl, ret,
                   glTouched, calls, callerVars>>

\* switch (plane) case 0: { ... case 1: ... case 2: ... }
RT_PlaneQuad ==
    /\ prog = "fly"
    /\ pc = "quad"
    /\ LET v == PlaneQuad(rt.vertexBufferData, rt.plane, slot, rt.x, rt.y, rt.z,
                          rt.sx, rt.sy)
       IN  /\ rt' = [rt EXCEPT !.vertexBufferData = v]
           /\ log' = Append(log, Event("quad", slot.ch, Cursor, gl, v))
    /\ pc' = "bufferData"
    /\ UNCHANGED <<g_face, g_font_tex, g_on_tex, shaderInit, slot, gl, ret,
                   glTouched, calls, callerVars>>

\* glBindBuffer; glBufferData(GL_ARRAY_BUFFER, sizeof(v[0]) * v.size(),
\* &v[0], GL_STATIC_DRAW) and the checkpoint.  &v[0] of an empty vector is
\* undefined behaviour: the build either goes on with a size of 0 or, with
\* checked containers, aborts the process.
RT_BufferData ==
    /\ prog = "fly"
    /\ pc = "bufferData"
    /\ \E aborts \in (IF rt.vertexBufferData = << >> THEN BOOLEAN ELSE {FALSE}),
          err \in GlErrors :
         IF aborts
           THEN /\ gl' = gl
                /\ rt' = rt
                /\ log' = Append(log, Event("abort", slot.ch, Cursor, gl, << >>))
                /\ ret' = ret
                /\ pc' = "crashed"
           ELSE /\ gl' = [gl EXCEPT !.buffer = rt.vertexBufferData]
                /\ rt' = NoteGlError(err)
                /\ CheckGlError(<< Event("buffer", slot.ch, Cursor, gl,
                                         rt.vertexBufferData) >>, err,
                                "render_text(): Error buffering data", "draw")
    /\ UNCHANGED <<g_face, g_font_tex, g_on_tex, shaderInit, slot,
                   glTouched, calls, callerVars>>

\* The vertex-attribute setup and glDrawArrays(GL_TRIANGLES, 0, v.size()):
\* the first v.size() vertices of the array buffer are drawn.
RT_DrawArrays ==
    /\ prog = "fly"
    /\ pc = "draw"
    /\ log' = Append(log, Event("draw", slot.ch, Cursor, gl,
                          SubSeq(gl.buffer, 1, Len(rt.vertexBufferData))))
    /\ pc' = "advance"
    /\ UNCHANGED <<g_face, g_font_tex, g_on_tex, shaderInit, slot, gl, rt,
                   ret, glTouched, calls, callerVars>>

\* x += (g->advance.x / 64) * sx; y += (g->advance.y / 64) * sy; p++
RT_Advance ==
    /\ prog = "fly"
    /\ pc = "advance"
    /\ LET nx == AdvanceX(rt.x, slot, rt.sx)
           ny == AdvanceY(rt.y, slot, rt.sy)
       IN  /\ rt' = [rt EXCEPT !.x = nx, !.y = ny, !.p = @ + 1]
           /\ log' = Append(log, Event("advance", slot.ch, <<nx, ny, rt.z>>, gl,
                                       << >>))
    /\ pc' = "loop"
    /\ UNCHANGED <<g_face, g_font_tex, g_on_tex, shaderInit, slot, gl, ret,
                   glTouched, calls, callerVars>>

\* After the loop: the pixel-store defaults, the always-on texture and
\* blending off; return true.
RT_Restore ==
    /\ prog = "fly"
    /\ pc = "loop"
    /\ rt.p > Len(rt.text)
    /\ gl' = [gl EXCEPT !.align = 4, !.rowlen = 0, !.bound = g_on_tex,
                        !.blend = FALSE]
    /\ ret' = "true"
    /\ pc' = "done"
    /\ UNCHANGED <<g_face, g_font_tex, g_on_tex, shaderInit, slot, rt, log,
                   glTouched, calls, callerVars>>

-----------------------------------------------------------------------------
(* The fly example's room-to-world pose.  Lengths are kept in quarters of a
   unit and times in quarters of a second, so that dt * stick * scale is an
   integer; angles are kept in eighths of pi. *)

\* X_SPEED_SCALE, Y_SPEED_SCALE, Z_SPEED_SCALE; SPIN_SPEED_SCALE = -Q_PI / 2
\* is -1 eighth of pi per quarter second
X_SPEED_SCALE == 3
Y_SPEED_SCALE == -3
Z_SPEED_SCALE == -2
SPIN_SPEED_SCALE == -1
\* the 0.5 of if (dt < 0.5), in quarters of a second
TooLong == 2

\* a quaternion is <<x, y, z, w>> (Q_X, Q_Y, Q_Z, Q_W)
IdentityQuat == <<0, 0, 0, 1>>
\* osvrPose3SetIdentity(&pose)
IdentityPose == [translation |-> <<0, 0, 0>>, rotation |-> IdentityQuat]

\* q_mult(dest, left, right): the quaternion product left * right
q_mult(l, r) ==
    << l[4] * r[1] + l[1] * r[4] + l[2] * r[3] - l[3] * r[2],
       l[4] * r[2] + l[2] * r[4] + l[3] * r[1] - l[1] * r[3],
       l[4] * r[3] + l[3] * r[4] + l[1] * r[2] - l[2] * r[1],
       l[4] * r[4] - l[1] * r[1] - l[2] * r[2] - l[3] * r[3] >>

\* q_xform(dest, q, vec): vec rotated by the unit quaternion q: q vec q*
q_xform(q, v) ==
    LET r == q_mult(q_mult(q, <<v[1], v[2], v[3], 0>>),
                    <<-q[1], -q[2], -q[3], q[4]>>)
    IN  <<r[1], r[2], r[3]>>

\* q_vec_scale(dest, s, v)
q_vec_scale(k, v) == <<k * v[1], k * v[2], k * v[3]>>

\* q_from_axis_angle(rot, 0, 1, 0, spin): <<0, sin(spin/2), 0, cos(spin/2)>>,
\* exact for the whole multiples of pi the sticks tried here give
q_from_axis_angle(spin) ==
    CASE (spin \div 8) % 4 = 0 -> <<0, 0, 0, 1>>
      [] (spin \div 8) % 4 = 1 -> <<0, 1, 0, 0>>
      [] (spin \div 8) % 4 = 2 -> <<0, 0, 0, -1>>
      [] (spin \div 8) % 4 = 3 -> <<0, -1, 0, 0>>

\* the time since the last frame, in quarters of a second: a short frame
\* and one that is too long
Dts == {1, 3}
\* trigger, left stick x and y, right stick x as read by osvrGetAnalogState:
\* a step to the right; forwards and up with the right stick at a value that
\* spins by a half turn in 0.25 s
Sticks == {[trigger |-> 0, lsx |-> 1, lsy |-> 0, rsx |-> 0],
           [trigger |-> 1, lsx |-> 0, lsy |-> 1, rsx |-> 8]}
\* the head orientation osvrGetPoseState reports: upside down (a half turn
\* about X)
HeadQuats == {<<1, 0, 0, 0>>}

\* the stick settings with the right stick deflected
Spinning == {st \in Sticks : st.rsx # 0}

\* what a frame reads: a short frame with the head pose read and any stick
\* setting; a long frame with the head pose read, and a short frame whose
\* head pose is not read, each with the right stick deflected
FrameInputs ==
    {in \in {[dt |-> dt, trigger |-> st.trigger, lsx |-> st.lsx,
              lsy |-> st.lsy, rsx |-> st.rsx, ok |-> TRUE, head |-> h] :
                dt \in Dts, st \in Sticks, h \in HeadQuats} :
       in.dt < TooLong \/ in.rsx # 0}
    \cup
    {[dt |-> 1, trigger |-> st.trigger, lsx |-> st.lsx, lsy |-> st.lsy,
      rsx |-> st.rsx, ok |-> FALSE, head |-> IdentityQuat] : st \in Spinning}

\* double spin = dt * rightStickXValue * SPIN_SPEED_SCALE;
Spin(in) == in.dt * in.rsx * SPIN_SPEED_SCALE

\* the rotation after this frame's spin: q_mult(cur_pose.quat, rot, cur_pose.quat)
SpunRotation(p, in) == q_mult(q_from_axis_angle(Spin(in)), p.rotation)

\* (deltaX, deltaY, deltaZ) of a frame whose head pose was read
Delta(p, in) ==
    LET right == in.dt * in.lsx * X_SPEED_SCALE
        forward == in.dt * in.lsy * Y_SPEED_SCALE
        up == in.dt * in.trigger * Z_SPEED_SCALE
        cur == SpunRotation(p, in)
        forwardDir == q_vec_scale(forward,
                         q_xform(cur, q_xform(in.head, <<0, 0, -1>>)))
        rightDir == q_vec_scale(right,
                         q_xform(cur, q_xform(in.head, <<1, 0, 0>>)))
    IN  << forwardDir[1] + rightDir[1],
           up + forwardDir[2] + rightDir[2],
           forwardDir[3] + rightDir[3] >>

\* pose.translation.data[k] += delta[k], k = 0, 1, 2
Translated(t, d) == <<t[1] + d[1], t[2] + d[2], t[3] + d[3]>>

\* the translation moved whatever the time since the last frame
FlyPose_NoTimeLimit(p, in) ==
    IF in.ok
      THEN [rotation |-> SpunRotation(p, in),
            translation |-> Translated(p.translation, Delta(p, in))]
      ELSE p

\* the pose after the frame's flying section
FlyPose(p, in) ==
    IF in.ok
      THEN [rotation |-> SpunRotation(p, in),
            translation |->
              IF in.dt < TooLong
                THEN Translated(p.translation, Delta(p, in))
                ELSE p.translation]
      ELSE p

\* DrawWorld is not running
NoDraw == [library |-> FALSE, map |-> << >>, rest |-> << >>, playerX |-> 0,
           playerZ |-> 0, dx |-> 0, dz |-> 0]

\* no render callback has been entered
NoCallback == [name |-> "none"]

\* CtrlHandler has not been called
NoCtrl == [events |-> 0, result |-> FALSE, handled |-> FALSE, updates |-> 0]

\* the state of main()'s own variables before the loop
MainNotStarted ==
    /\ quit = FALSE
    /\ pose = IdentityPose
    /\ renderPose = IdentityPose
    /\ frames = << >>
    /\ dw = NoDraw
    /\ cleanedUp = FALSE
    /\ render = "null"
    /\ g_ft = FALSE
    /\ face = 0
    /\ f = 0
    /\ exitCode = "none"
    /\ mainLog = << >>
    /\ pressed = FALSE
    /\ reports = << >>
    /\ ctrl = NoCtrl
    /\ cb = NoCallback

-----------------------------------------------------------------------------
(* A caller that hands render_text any text, spacing and plane *)

CallRenderText ==
    /\ prog = "fly"
    /\ mpc = "harness"
    /\ pc \in {"idle", "done"}
    /\ calls < MaxCalls
    /\ \E text \in Texts, s \in Scales, plane \in Planes :
         RenderTextEnter(text, StartPos[1], StartPos[2], StartPos[3],
                         s[1], s[2], plane)
    /\ UNCHANGED callerVars

-----------------------------------------------------------------------------
(* render_text of the basic example: it returns nothing and, at each of its
   checkpoints, only writes a message and goes on. *)

\* the depth of the text quads (0.7f) and of the rectangle behind them
\* (0.6f), and that rectangle's alpha (0.5f), in tenths
TextDepth == 7
MaskDepth == 6
MaskAlpha == 5

\* The call and the test of g_face that opens the function:
\* if (!g_face) { return; }
Basic_RenderTextEnter(text, x, y, sx, sy) ==
    /\ calls' = calls + 1
    /\ rt' = [text |-> text, p |-> 1, x |-> x, y |-> y, z |-> TextDepth,
              sx |-> sx, sy |-> sy, plane |-> XY, vertexBufferData |-> << >>,
              x0 |-> x, y0 |-> y, z0 |-> TextDepth, glErr |-> FALSE]
    /\ glTouched' = FALSE
    /\ log' = << >>
    /\ ret' = "void"
    /\ pc' = IF g_face THEN "prologue" ELSE "done"

Basic_CallRenderText ==
    /\ prog = "basic"
    /\ mpc = "harness"
    /\ pc \in {"idle", "done"}
    /\ calls < MaxCalls
    /\ \E text \in Texts, s \in Scales :
         Basic_RenderTextEnter(text, StartPos[1], StartPos[2], s[1], s[2])
    /\ UNCHANGED <<g_face, g_font_tex, g_on_tex, shaderInit, slot, gl, callerVars>>

\* the three checkpoints before the rectangle, glActiveTexture(GL_TEXTURE0),
\* glEnable(GL_BLEND), glBlendFunc(...)
Basic_Prologue ==
    /\ prog = "basic"
    /\ pc = "prologue"
    /\ gl' = [gl EXCEPT !.blend = TRUE]
    /\ glTouched' = TRUE
    /\ \E e1 \in GlErrors, e2 \in GlErrors, e3 \in GlErrors :
         rt' = [rt EXCEPT !.glErr = @ \/ e1 \/ e2 \/ e3]
    /\ pc' = "mask"
    /\ UNCHANGED <<g_face, g_font_tex, g_on_tex, shaderInit, slot, ret, log,
                   calls, callerVars>>

\* The black rectangle behind the text: glBindTexture(GL_TEXTURE_2D, 0),
\* FT_Load_Char(g_face, '0', ...) whose result is not tested, one quad as
\* wide as strlen(text) + 1 such glyphs, buffered and drawn.
Basic_Mask ==
    /\ prog = "basic"
    /\ pc = "mask"
    /\ \E loaded \in BOOLEAN, e1 \in GlErrors, e2 \in GlErrors :
         LET g == IF loaded THEN GlyphOf("0") ELSE slot
             w == g.width * rt.sx
             h == g.rows * rt.sy
             chars == Len(rt.text) + 1
             v == addFontQuad(<< >>, rt.x, rt.x + chars * w, rt.y + h, rt.y,
                              MaskDepth, 0, 0, 0, MaskAlpha)
             g0 == [gl EXCEPT !.bound = 0]
         IN  /\ slot' = g
             /\ gl' = [g0 EXCEPT !.buffer = v]
             /\ rt' = [rt EXCEPT !.vertexBufferData = v,
                                 !.glErr = @ \/ e1 \/ e2]
             /\ log' = log \o << Event("maskquad", "0", Cursor, g0, v),
                                 Event("maskdraw", "0", Cursor, g0, v) >>
    /\ pc' = "bindTexture"
    /\ UNCHANGED <<g_face, g_font_tex, g_on_tex, shaderInit, ret, glTouched,
                   calls, callerVars>>

Basic_BindFontTexture ==
    /\ prog = "basic"
    /\ pc = "bindTexture"
    /\ g_font_tex' = GenFontTexture(g_font_tex, gl.names)
    /\ gl' = [gl EXCEPT !.names = IF g_font_tex' > @ THEN g_font_tex' ELSE @,
                        !.bound = g_font_tex']
    /\ \E err \in GlErrors : rt' = [rt EXCEPT !.glErr = @ \/ err]
    /\ pc' = "loop"
    /\ UNCHANGED <<g_face, g_on_tex, shaderInit, slot, ret, log, glTouched,
                   calls, callerVars>>

Basic_LoadChar ==
    /\ prog = "basic"
    /\ pc = "loop"
    /\ rt.p <= Len(rt.text)
    /\ \E loaded \in BOOLEAN :
         LET c == rt.text[rt.p] IN
         IF loaded
           THEN /\ slot' = GlyphOf(c)
                /\ log' = Append(log, Event("load", c, Cursor, gl, << >>))
                /\ rt' = rt
                /\ pc' = "texParams"
           ELSE /\ slot' = slot
                /\ log' = Append(log, Event("loadfail", c, Cursor, gl, << >>))
                /\ rt' = [rt EXCEPT !.p = @ + 1]
                /\ pc' = "loop"
    /\ UNCHANGED <<g_face, g_font_tex, g_on_tex, shaderInit, gl, ret,
                   glTouched, calls, callerVars>>

Basic_TexParams ==
    /\ prog = "basic"
    /\ pc = "texParams"
    /\ gl' = [gl EXCEPT !.align = 1, !.rowlen = slot.width]
    /\ \E err \in GlErrors : rt' = [rt EXCEPT !.glErr = @ \/ err]
    /\ pc' = "texImage"
    /\ UNCHANGED <<g_face, g_font_tex, g_on_tex, shaderInit, slot, ret, log,
                   glTouched, calls, callerVars>>

Basic_TexImage ==
    /\ prog = "basic"
    /\ pc = "texImage"
    /\ gl' = [gl EXCEPT !.image[gl.bound] = slot.ch]
    /\ log' = Append(log, Event("upload", slot.ch, Cursor, gl, << >>))
    /\ \E err \in GlErrors : rt' = [rt EXCEPT !.glErr = @ \/ err]
    /\ pc' = "quad"
    /\ UNCHANGED <<g_face, g_font_tex, g_on_tex, shaderInit, slot, ret,
                   glTouched, calls, callerVars>>

\* vertexBufferData.clear(); addFontQuad(v, x2, x2 + w, y2, y2 - h, 0.7f, 1,1,1,0)
BasicQuad(g, x, y, sx, sy) ==
    LET x2 == x + g.left * sx
        y2 == y + g.top * sy
        w == g.width * sx
        h == g.rows * sy
    IN  addFontQuad(<< >>, x2, x2 + w, y2, y2 - h, TextDepth,
                    Fx(1), Fx(1), Fx(1), 0)

Basic_Quad ==
    /\ prog = "basic"
    /\ pc = "quad"
    /\ LET v == BasicQuad(slot, rt.x, rt.y, rt.sx, rt.sy)
       IN  /\ rt' = [rt EXCEPT !.vertexBufferData = v]
           /\ log' = Append(log, Event("quad", slot.ch, Cursor, gl, v))
    /\ pc' = "bufferData"
    /\ UNCHANGED <<g_face, g_font_tex, g_on_tex, shaderInit, slot, gl, ret,
                   glTouched, calls, callerVars>>

Basic_BufferData ==
    /\ prog = "basic"
    /\ pc = "bufferData"
    /\ gl' = [gl EXCEPT !.buffer = rt.vertexBufferData]
    /\ log' = Append(log, Event("buffer", slot.ch, Cursor, gl,
                                rt.vertexBufferData))
    /\ \E err \in GlErrors : rt' = [rt EXCEPT !.glErr = @ \/ err]
    /\ pc' = "draw"
    /\ UNCHANGED <<g_face, g_font_tex, g_on_tex, shaderInit, slot, ret,
                   glTouched, calls, callerVars>>

Basic_DrawArrays ==
    /\ prog = "basic"
    /\ pc = "draw"
    /\ log' = Append(log, Event("draw", slot.ch, Cursor, gl,
                          SubSeq(gl.buffer, 1, Len(rt.vertexBufferData))))
    /\ pc' = "advance"
    /\ UNCHANGED <<g_face, g_font_tex, g_on_tex, shaderInit, slot, gl, rt,
                   ret, glTouched, calls, callerVars>>

Basic_Advance ==
    /\ prog = "basic"
    /\ pc = "advance"
    /\ LET nx == AdvanceX(rt.x, slot, rt.sx)
           ny == AdvanceY(rt.y, slot, rt.sy)
       IN  /\ rt' = [rt EXCEPT !.x = nx, !.y = ny, !.p = @ + 1]
           /\ log' = Append(log, Event("advance", slot.ch, <<nx, ny, rt.z>>, gl,
                                       << >>))
    /\ pc' = "loop"
    /\ UNCHANGED <<g_face, g_font_tex, g_on_tex, shaderInit, slot, gl, ret,
                   glTouched, calls, callerVars>>

\* the pixel-store defaults, glBindTexture(GL_TEXTURE_2D, 0), glDisable(GL_BLEND)
Basic_Restore ==
    /\ prog = "basic"
    /\ pc = "loop"
    /\ rt.p > Len(rt.text)
    /\ gl' = [gl EXCEPT !.align = 4, !.rowlen = 0, !.bound = 0, !.blend = FALSE]
    /\ pc' = "done"
    /\ UNCHANGED <<g_face, g_font_tex, g_on_tex, shaderInit, slot, rt, ret,
                   log, glTouched, calls, callerVars>>

-----------------------------------------------------------------------------

\* The GL state main leaves before its render loop: the fly example has
\* generated and bound the always-on texture and set the pixel store for it;
\* the basic example has touched none of it.
InitGl(onTex) ==
    [blend |-> FALSE, bound |-> onTex,
     align |-> IF onTex = 0 THEN 4 ELSE 1,
     rowlen |-> IF onTex = 0 THEN 0 ELSE 2,
     names |-> onTex, image |-> [t \in 0..(MaxCalls + 1) |-> IF t = 0 THEN "" ELSE
                                               IF t = onTex THEN "on" ELSE ""],
     buffer |-> << >>]

InitRt ==
    [text |-> << >>, p |-> 1, x |-> 0, y |-> 0, z |-> 0, sx |-> 0, sy |-> 0,
     plane |-> XY, vertexBufferData |-> << >>, x0 |-> 0, y0 |-> 0, z0 |-> 0,
     glErr |-> FALSE]

Init ==
    /\ prog \in {"fly", "basic"}
    /\ g_face \in BOOLEAN
    /\ g_font_tex = 0
    /\ g_on_tex = (IF prog = "fly" THEN 1 ELSE 0)
    /\ shaderInit = FALSE
    /\ slot = EmptySlot
    /\ gl = InitGl(g_on_tex)
    /\ pc = "idle"
    /\ rt = InitRt
    /\ ret = "none"
    /\ log = << >>
    /\ glTouched = FALSE
    /\ calls = 0
    /\ mpc = "harness"
    /\ quadVec = << >>
    /\ quadLast = NoQuad
    /\ build = NoBuild
    /\ MainNotStarted

Next ==
    \/ CallRenderText
    \/ RT_UseProgram
    \/ RT_ActiveTexture
    \/ RT_EnableBlend
    \/ RT_BindFontTexture
    \/ RT_LoadChar
    \/ RT_TexParams
    \/ RT_TexImage
    \/ RT_PlaneQuad
    \/ RT_BufferData
    \/ RT_DrawArrays
    \/ RT_Advance
    \/ RT_Restore
    \/ Basic_CallRenderText
    \/ Basic_Prologue
    \/ Basic_Mask
    \/ Basic_BindFontTexture
    \/ Basic_LoadChar
    \/ Basic_TexParams
    \/ Basic_TexImage
    \/ Basic_Quad
    \/ Basic_BufferData
    \/ Basic_DrawArrays
    \/ Basic_Advance
    \/ Basic_Restore

Spec == Init /\ [][Next]_vars

-----------------------------------------------------------------------------
(* main() of either example, from its first statement: the startup, the
   fonts, the render loop with Render's callbacks, and the cleanup. *)

\* DrawWorld's GLuint values (playerX, playerZ, dx, dz) are multiples of 4
\* and are kept in fours; GLuint arithmetic wraps at 2^32, 2^30 fours
GLuint(n) == n % 1073741824
\* the GLuint handed to a GLfloat parameter, in tenths
GLuintToFloat(n) == Fx(4 * n)

\* contents of the map file tried: a character before and one after the
\* '@'; a newline before and one after it
Maps == {<<"A", "@", "B">>, <<"\n", "@", "\n">>}

\* the button reports one context.update() delivers to myButtonCallback,
\* in the order of their delivery (both buttons share the callback and quit)
ButtonReports == {<< >>, <<1>>, <<0>>, <<1, 0>>, <<0, 1>>}

\* *result = (report->state != 0);
myButtonCallback(result, state) == state # 0

\* the string the basic example's DrawWorld writes ("Hello, World"), cut to
\* two glyphs of the model's font
HelloWorld == <<"A", "B">>

\* loop iterations begun so far: one context.update() each
Iterations == Cardinality({i \in DOMAIN mainLog : mainLog[i] = "update"})

\* main() up to createRenderManager: the two button callbacks are
\* registered with &quit, the RenderManager is created;
\* if ((render == nullptr) || (!render->doingOkay())) { ...; return 1; }
Main_CreateRenderManager ==
    /\ mpc = "start"
    /\ \E made \in {"null", "notOkay", "ok"} :
         /\ render' = IF made = "null" THEN "null" ELSE "live"
         /\ IF made = "ok"
              THEN /\ mainLog' = mainLog \o << "registerCallback",
                        "registerCallback", "createRenderManager" >>
                   /\ exitCode' = exitCode
                   /\ mpc' = "callbacks"
              ELSE /\ mainLog' = mainLog \o << "registerCallback",
                        "registerCallback", "createRenderManager",
                        "Could not create RenderManager" >>
                   /\ exitCode' = "1"
                   /\ mpc' = "returned"
    /\ UNCHANGED <<textVars, prog, quadVec, quadLast, build, mainVars, g_ft, face, f,
                   pressed, reports, ctrl, cb>>

\* the render callbacks each example registers, in the order of the calls
RenderCallbacks ==
    IF prog = "fly"
      THEN << "AddRenderCallback /", "AddRenderCallback /me/head",
              "AddRenderCallback /me/hands/left",
              "AddRenderCallback /me/hands/right" >>
      ELSE << "AddRenderCallback /", "AddRenderCallback /me/hands/left",
              "AddRenderCallback /me/hands/right" >>

\* SetViewProjectionCallback(SetupEye), SetDisplayCallback(SetupDisplay),
\* the AddRenderCallback calls (and, on Windows, SetConsoleCtrlHandler)
Main_RegisterCallbacks ==
    /\ mpc = "callbacks"
    /\ mainLog' = mainLog \o << "SetViewProjectionCallback",
                               "SetDisplayCallback" >> \o RenderCallbacks
    /\ mpc' = "openDisplay"
    /\ UNCHANGED <<textVars, prog, quadVec, quadLast, build, mainVars, render, g_ft,
                   face, f, exitCode, pressed, reports, ctrl, cb>>

\* render->OpenDisplay() and the two tests of its result:
\* FAILURE: delete render; return 2.  ret.library.OpenGL == nullptr: return 3
Main_OpenDisplay ==
    /\ mpc = "openDisplay"
    /\ \E opened \in BOOLEAN, library \in BOOLEAN :
         IF ~opened
           THEN /\ mainLog' = mainLog \o << "OpenDisplay",
                                            "Could not open display",
                                            "delete render" >>
                /\ render' = "deleted"
                /\ exitCode' = "2"
                /\ mpc' = "returned"
         ELSE IF ~library
           THEN /\ mainLog' = mainLog \o << "OpenDisplay",
                                            "Attempted to run an OpenGL program" >>
                /\ render' = render
                /\ exitCode' = "3"
                /\ mpc' = "returned"
         ELSE /\ mainLog' = Append(mainLog, "OpenDisplay")
              /\ render' = render
              /\ exitCode' = exitCode
              /\ mpc' = "setupRendering"
    /\ UNCHANGED <<textVars, prog, quadVec, quadLast, build, mainVars, g_ft, face, f,
                   pressed, reports, ctrl, cb>>

\* bool SetupRendering(library): false for a null OpenGL library, else
\* glEnable(GL_DEPTH_TEST); glDepthFunc(GL_LESS); return true
SetupRendering(library) == library

\* if (!SetupRendering(ret.library)) { return 3; }  The library main()
\* hands over has passed the test of Main_OpenDisplay.
Main_SetupRendering ==
    /\ mpc = "setupRendering"
    /\ IF SetupRendering(TRUE)
         THEN /\ mainLog' = Append(mainLog, "SetupRendering")
              /\ exitCode' = exitCode
              /\ mpc' = "glewInit"
         ELSE /\ mainLog' = mainLog \o << "SetupRendering",
                                          "SetupRendering: No OpenGL GraphicsLibrary" >>
              /\ exitCode' = "3"
              /\ mpc' = "returned"
    /\ UNCHANGED <<textVars, prog, quadVec, quadLast, build, mainVars, render, g_ft,
                   face, f, pressed, reports, ctrl, cb>>

\* a main() that says GLEW failed and carries on
Main_GlewInit_GoesOn ==
    /\ mpc = "glewInit"
    /\ \E ok \in BOOLEAN :
         mainLog' = IF ok THEN Append(mainLog, "glewInit")
                    ELSE mainLog \o << "glewInit", "Failed ot initialize GLEW" >>
    /\ mpc' = "freetype"
    /\ UNCHANGED <<textVars, prog, quadVec, quadLast, build, mainVars, render, g_ft,
                   face, f, exitCode, pressed, reports, ctrl, cb>>

\* if (glewInit() != GLEW_OK) { ...; return -1; }
Main_GlewInit ==
    /\ mpc = "glewInit"
    /\ \E ok \in BOOLEAN :
         IF ok
           THEN /\ mainLog' = Append(mainLog, "glewInit")
                /\ exitCode' = exitCode
                /\ mpc' = "freetype"
           ELSE /\ mainLog' = mainLog \o << "glewInit",
                                            "Failed ot initialize GLEW" >>
                /\ exitCode' = "-1"
                /\ mpc' = "returned"
    /\ UNCHANGED <<textVars, prog, quadVec, quadLast, build, mainVars, render, g_ft,
                   face, f, pressed, reports, ctrl, cb>>

\* std::vector<const char*> FONTS: one entry in the fly example; in the
\* basic example one entry on Windows and macOS and these two elsewhere
FONTS ==
    IF prog = "fly"
      THEN << "./COURIER.TTF" >>
      ELSE << "/usr/share/fonts/truetype/ubuntu-font-family/Ubuntu-R.ttf",
              "/usr/share/fonts/truetype/ubuntu/Ubuntu-R.ttf" >>

\* if (FT_Init_FreeType(&g_ft)) { std::cerr << ...; } else { the fonts }
Main_InitFreeType ==
    /\ mpc = "freetype"
    /\ \E ok \in BOOLEAN :
         /\ g_ft' = ok
         /\ f' = IF ok THEN 1 ELSE 0
         /\ mpc' = IF ok THEN "fonts" ELSE "setupGl"
    /\ UNCHANGED <<textVars, prog, quadVec, quadLast, build, mainVars, render, face,
                   exitCode, mainLog, pressed, reports, ctrl, cb>>

\* one turn of for (auto f : FONTS):
\* if (0 == FT_New_Face(g_ft, f, 0, &g_face)) { found = true; } else { ... }
\* FT_New_Face stores the new face in g_face when it succeeds and leaves
\* g_face alone when it fails; the loop goes on to the next entry either way.
Main_NewFace ==
    /\ mpc = "fonts"
    /\ f <= Len(FONTS)
    /\ \E opened \in BOOLEAN :
         /\ face' = IF opened THEN f ELSE face
         /\ g_face' = (opened \/ g_face)
    /\ f' = f + 1
    /\ UNCHANGED <<g_font_tex, g_on_tex, shaderInit, slot, gl, pc, rt, ret, log,
                   glTouched, calls, prog, mpc, quadVec, quadLast, build, mainVars,
                   render, g_ft, exitCode, mainLog, pressed, reports, ctrl, cb>>

\* after the loop: if (!found) { ...; FT_Done_FreeType(g_ft); g_ft = nullptr; }
\* else { FT_Set_Pixel_Sizes(g_face, 0, FONT_SIZE); }
Main_FontsDone ==
    /\ mpc = "fonts"
    /\ f > Len(FONTS)
    /\ g_ft' = g_face
    /\ mainLog' = IF g_face THEN Append(mainLog, "FT_Set_Pixel_Sizes")
                  ELSE mainLog
    /\ f' = 0
    /\ mpc' = "setupGl"
    /\ UNCHANGED <<textVars, prog, quadVec, quadLast, build, mainVars, render, face,
                   exitCode, pressed, reports, ctrl, cb>>

\* the GL objects main() creates before the loop
SetupGlCalls ==
    IF prog = "fly" THEN << "glGenBuffers", "glGenVertexArrays", "glGenTextures" >>
    ELSE << "glGenBuffers" >>

\* glGenBuffers and, in the fly example, glGenVertexArrays and the always-on
\* texture: generated, bound, its pixel store set, uploaded; an error of
\* the upload sets quit
Main_SetupGl ==
    /\ mpc = "setupGl"
    /\ IF prog = "fly"
         THEN /\ g_on_tex' = 1
              /\ gl' = InitGl(1)
              /\ \E e1 \in GlErrors, e2 \in GlErrors :
                   quit' = IF e2 THEN TRUE ELSE quit
         ELSE UNCHANGED <<g_on_tex, gl, quit>>
    /\ mainLog' = mainLog \o SetupGlCalls
    /\ mpc' = "loopTest"
    /\ UNCHANGED <<g_face, g_font_tex, shaderInit, slot, pc, rt, ret, log,
                   glTouched, calls, prog, quadVec, quadLast, build, pose, renderPose,
                   frames, dw, cleanedUp, render, g_ft, face, f, exitCode,
                   pressed, reports, ctrl, cb>>

\* while (!quit)
Main_LoopTest ==
    /\ mpc = "loopTest"
    /\ quit \/ Iterations < MaxFrames
    /\ mpc' = IF quit THEN "cleanup" ELSE "update"
    /\ UNCHANGED <<textVars, prog, quadVec, quadLast, build, mainVars, runVars>>

\* where main() goes on when context.update() has returned
AfterUpdate == IF prog = "fly" THEN "fly" ELSE "render"

\* context.update() is entered: the reports it will deliver (it returns at
\* once when there is none)
Main_ContextUpdate ==
    /\ mpc = "update"
    /\ mainLog' = Append(mainLog, "update")
    /\ reports' \in ButtonReports
    /\ pressed' = FALSE
    /\ ctrl' = IF ctrl.handled THEN [ctrl EXCEPT !.updates = @ + 1] ELSE ctrl
    /\ mpc' = IF reports' = << >> THEN AfterUpdate ELSE "delivering"
    /\ UNCHANGED <<textVars, prog, quadVec, quadLast, build, mainVars, render, g_ft,
                   face, f, exitCode, cb>>

\* context.update() runs myButtonCallback(&quit, timestamp, report) for the
\* next report, and returns after the last
Main_ButtonCallback ==
    /\ mpc = "delivering"
    /\ reports # << >>
    /\ quit' = myButtonCallback(quit, Head(reports))
    /\ pressed' = (pressed \/ Head(reports) # 0)
    /\ reports' = Tail(reports)
    /\ mpc' = IF reports' = << >> THEN AfterUpdate ELSE "delivering"
    /\ UNCHANGED <<textVars, prog, quadVec, quadLast, build, pose, renderPose,
                   frames, dw, cleanedUp, render, g_ft, face, f, exitCode,
                   mainLog, ctrl, cb>>

\* the flying section: analogs, dt, head pose, the pose's increment
Main_Fly ==
    /\ mpc = "fly"
    /\ \E in \in FrameInputs :
         /\ pose' = FlyPose(pose, in)
         /\ frames' = Append(frames, in)
    /\ mpc' = "render"
    /\ UNCHANGED <<textVars, prog, runVars, quadVec, quadLast, build, quit, renderPose,
                   dw, cleanedUp>>

\* params.worldFromRoomAppend = &pose; render->Render(params) (Render() in
\* the basic example): either it fails before any callback, or it goes on
\* to the callbacks
Main_Render ==
    /\ mpc = "render"
    /\ renderPose' = pose
    /\ \E started \in BOOLEAN :
         IF started
           THEN /\ quit' = quit
                /\ mainLog' = Append(mainLog, "Render")
                /\ mpc' = "setupDisplay"
           ELSE /\ quit' = TRUE
                /\ mainLog' = mainLog \o << "Render", "Render() returned false" >>
                /\ mpc' = "loopTest"
    /\ UNCHANGED <<textVars, prog, quadVec, quadLast, build, pose, frames, dw,
                   cleanedUp, render, g_ft, face, f, exitCode, pressed, reports, ctrl,
                   cb>>

\* a render callback entered with these pointers (TRUE: non-null), before
\* it has done anything: what it will write, whether it makes GL calls,
\* opens the map file, calls render_text or Cube::draw, and quit, the GL
\* state, the number of render_text calls and the shader as it found them
Entered(name, library, buffers) ==
    [name |-> name, library |-> library, buffers |-> buffers, cerr |-> << >>,
     glCalls |-> FALSE, file |-> FALSE, text |-> FALSE, cube |-> FALSE,
     quit |-> quit, gl |-> gl, calls |-> calls, shaderInit |-> shaderInit]

\* null checks that return without a word
NullChecks_Silent(who, library, buffers) == << >>

\* the two tests that open every render callback: what they write to cerr
\* (who is the name the message carries)
NullChecks(who, library, buffers) ==
    IF ~library
      THEN << [who |-> who, what |-> "No OpenGL GraphicsLibrary"] >>
    ELSE IF ~buffers
      THEN << [who |-> who, what |-> "No OpenGL RenderBuffer"] >>
    ELSE << >>

\* a callback that returns at its null checks, or goes on to its GL calls
Checked(name, who, library, buffers) ==
    [Entered(name, library, buffers) EXCEPT
        !.cerr = NullChecks(who, library, buffers),
        !.glCalls = (library /\ buffers)]

\* SetupDisplay: the null checks, then glClearColor and glClear
SetupDisplay ==
    /\ mpc = "setupDisplay"
    /\ \E library \in BOOLEAN, buffers \in BOOLEAN :
         cb' = Checked("SetupDisplay", "SetupDisplay", library, buffers)
    /\ mpc' = "setupEye"
    /\ UNCHANGED <<textVars, prog, quadVec, quadLast, build, mainVars, render, g_ft,
                   face, f, exitCode, mainLog, pressed, reports, ctrl>>

\* SetupEye: the null checks, then glViewport
SetupEye ==
    /\ mpc = "setupEye"
    /\ \E library \in BOOLEAN, buffers \in BOOLEAN :
         cb' = Checked("SetupEye", "SetupEye", library, buffers)
    /\ mpc' = "drawWorld"
    /\ UNCHANGED <<textVars, prog, quadVec, quadLast, build, mainVars, render, g_ft,
                   face, f, exitCode, mainLog, pressed, reports, ctrl>>

\* the log entry of a cube's first init(): glGenBuffers, glGenVertexArrays
CubeInit(cube) ==
    IF cube = "roomCube" THEN "roomCube.init" ELSE "handsCube.init"

\* Cube::initialized
CubeInitialized(cube) == \E i \in DOMAIN mainLog : mainLog[i] = CubeInit(cube)

\* the GL calls of the destructors of the static objects, which run when
\* main() has returned or exit is called (not after an uncaught exception,
\* which ends in abort), in the reverse order of the objects' construction
\* (sampleShader, roomCube, handsCube): ~Cube deletes its buffer and vertex
\* array if (initialized), ~SampleShader its program if (initialized)
DestructorCalls ==
    (IF CubeInitialized("handsCube") THEN << "handsCube.~Cube" >> ELSE << >>)
    \o (IF CubeInitialized("roomCube") THEN << "roomCube.~Cube" >> ELSE << >>)
    \o (IF shaderInit THEN << "sampleShader.~SampleShader" >> ELSE << >>)

\* the first loop of DrawWorld over the file: the place of the '@'
RECURSIVE ScanForPlayer(_, _, _)
ScanForPlayer(rest, playerX, playerZ) ==
    IF rest = << >>
      THEN [rest |-> rest, playerX |-> playerX, playerZ |-> playerZ]
    ELSE IF Head(rest) = "@"
      THEN [rest |-> Tail(rest), playerX |-> playerX, playerZ |-> playerZ]
    ELSE IF Head(rest) = "\n"
      THEN ScanForPlayer(Tail(rest), GLuint(playerX - 1), 0)
    ELSE ScanForPlayer(Tail(rest), playerX, GLuint(playerZ + 1))

\* the fly example's DrawWorld up to its second loop: the null checks, the
\* always-on texture, the map file (exit(1) when it cannot be opened) and
\* the scan for '@'
DrawWorld_Open ==
    /\ prog = "fly"
    /\ mpc = "drawWorld"
    /\ \E library \in BOOLEAN, buffers \in BOOLEAN, opened \in BOOLEAN,
          map \in Maps :
         IF ~(library /\ buffers)
           THEN /\ cb' = Checked("DrawWorld", "DrawWorld", library, buffers)
                /\ gl' = gl
                /\ dw' = NoDraw
                /\ exitCode' = exitCode
                /\ mainLog' = mainLog
                /\ mpc' = "drawHead"
           ELSE /\ cb' = [Checked("DrawWorld", "DrawWorld", library, buffers)
                            EXCEPT !.file = TRUE]
                /\ gl' = [gl EXCEPT !.bound = g_on_tex]
                /\ IF opened
                     THEN LET at == ScanForPlayer(map, 0, 0) IN
                          /\ dw' = [library |-> TRUE, map |-> map,
                                    rest |-> at.rest,
                                    playerX |-> at.playerX,
                                    playerZ |-> at.playerZ,
                                    dx |-> at.playerX, dz |-> at.playerZ]
                          /\ exitCode' = exitCode
                          /\ mainLog' = mainLog
                          /\ mpc' = "drawLoop"
                     ELSE /\ dw' = [NoDraw EXCEPT !.library = TRUE]
                          /\ exitCode' = "1"
                          /\ mainLog' = mainLog \o DestructorCalls
                          /\ mpc' = "exited"
    /\ UNCHANGED <<g_face, g_font_tex, g_on_tex, shaderInit, slot, pc, rt, ret,
                   log, glTouched, calls, prog, quadVec, quadLast, build, quit, pose,
                   renderPose, frames, cleanedUp, render, g_ft, face, f,
                   pressed, reports, ctrl>>

\* while (ifs.get(c)) with a newline: dz = playerZ; dx += 4;
DrawWorld_NewLine ==
    /\ mpc = "drawLoop"
    /\ dw.rest # << >> /\ Head(dw.rest) = "\n"
    /\ dw' = [dw EXCEPT !.rest = Tail(@), !.dz = dw.playerZ,
                        !.dx = GLuint(@ + 1)]
    /\ UNCHANGED <<textVars, prog, runVars, mpc, quadVec, quadLast, build, quit, pose,
                   renderPose, frames, cleanedUp>>

\* while (ifs.get(c)) with any other character:
\* render_text(projectionGL, viewGL, arr, dx, -2, dz, 0.1f, 0.1f, XZ)
DrawWorld_RenderText ==
    /\ mpc = "drawLoop"
    /\ dw.rest # << >> /\ Head(dw.rest) # "\n"
    /\ RenderTextEnter(<< Head(dw.rest) >>, GLuintToFloat(dw.dx), Fx(-2),
                       GLuintToFloat(dw.dz), 1, 1, XZ)
    /\ dw' = [dw EXCEPT !.rest = Tail(@)]
    /\ cb' = [cb EXCEPT !.text = TRUE]
    /\ mpc' = "renderText"
    /\ UNCHANGED <<prog, quadVec, quadLast, build, quit, pose, renderPose, frames,
                   cleanedUp, render, g_ft, face, f, exitCode, mainLog,
                   pressed, reports, ctrl>>

\* render_text has returned to its caller: its parameters and locals are
\* gone, and so is what was recorded of the call
RenderTextLeft ==
    /\ pc' = "idle"
    /\ rt' = InitRt
    /\ ret' = "none"
    /\ log' = << >>
    /\ glTouched' = FALSE
    /\ UNCHANGED <<g_face, g_font_tex, g_on_tex, shaderInit, slot, gl, calls>>

\* if (!render_text(...)) { quit = true; }  dz -= 4;
DrawWorld_AfterText ==
    /\ prog = "fly"
    /\ mpc = "renderText"
    /\ pc = "done"
    /\ quit' = IF ret = "false" THEN TRUE ELSE quit
    /\ dw' = [dw EXCEPT !.dz = GLuint(@ - 1)]
    /\ RenderTextLeft
    /\ mpc' = "drawLoop"
    /\ UNCHANGED <<prog, runVars, quadVec, quadLast, build, pose, renderPose, frames,
                   cleanedUp>>

\* the exception of the shader's init leaves render_text, DrawWorld, Render
\* and main(), none of which catches it
DrawWorld_Unwind ==
    /\ mpc = "renderText"
    /\ pc = "thrown"
    /\ exitCode' = "abort"
    /\ mpc' = "terminated"
    /\ UNCHANGED <<textVars, prog, quadVec, quadLast, build, mainVars, render, g_ft,
                   face, f, mainLog, pressed, reports, ctrl, cb>>

\* ifs.close() and the return from DrawWorld
DrawWorld_Close ==
    /\ mpc = "drawLoop"
    /\ dw.rest = << >>
    /\ mpc' = "drawHead"
    /\ UNCHANGED <<textVars, prog, quadVec, quadLast, build, mainVars, runVars>>

\* Cube::draw: init(), which generates the cube's buffers and vertex array
\* the first time; then sampleShader.useProgram, whose first use compiles
\* and links the shaders and throws when that fails; then the draw
CubeDraw(cube, next) ==
    /\ mainLog' = IF CubeInitialized(cube) THEN mainLog
                  ELSE Append(mainLog, CubeInit(cube))
    /\ \E built \in (IF shaderInit THEN {TRUE} ELSE BOOLEAN) :
         IF built
           THEN /\ shaderInit' = TRUE
                /\ exitCode' = exitCode
                /\ mpc' = next
           ELSE /\ shaderInit' = shaderInit
                /\ exitCode' = "abort"
                /\ mpc' = "terminated"

\* the basic example's DrawWorld: the null checks, roomCube.draw, and
\* render_text(projectionGL, viewGL, "Hello, World", 0,0, 1,1)
Basic_DrawWorld ==
    /\ prog = "basic"
    /\ mpc = "drawWorld"
    /\ \E library \in BOOLEAN, buffers \in BOOLEAN :
         IF ~(library /\ buffers)
           THEN /\ cb' = Checked("DrawWorld", "DrawWorld", library, buffers)
                /\ mpc' = "drawHandLeft"
                /\ UNCHANGED <<textVars, exitCode, mainLog>>
           ELSE /\ CubeDraw("roomCube", "renderText")
                /\ cb' = [Checked("DrawWorld", "DrawWorld", library, buffers)
                            EXCEPT !.cube = TRUE, !.text = (mpc' = "renderText")]
                /\ IF mpc' = "renderText"
                     THEN Basic_RenderTextEnter(HelloWorld, 0, 0, 10, 10)
                     ELSE UNCHANGED <<pc, rt, ret, log, glTouched, calls>>
                /\ UNCHANGED <<g_face, g_font_tex, g_on_tex, slot, gl>>
    /\ UNCHANGED <<prog, quadVec, quadLast, build, mainVars, render, g_ft, face, f,
                   pressed, reports, ctrl>>

\* the return of the basic example's render_text and of its DrawWorld
Basic_DrawWorldEnd ==
    /\ prog = "basic"
    /\ mpc = "renderText"
    /\ pc = "done"
    /\ RenderTextLeft
    /\ mpc' = "drawHandLeft"
    /\ UNCHANGED <<prog, quadVec, quadLast, build, mainVars, runVars>>

\* the fly example's DrawHead: the null checks (their messages say
\* "DrawWorld"), then glBindTexture(GL_TEXTURE_2D, g_on_tex)
DrawHead ==
    /\ prog = "fly"
    /\ mpc = "drawHead"
    /\ \E library \in BOOLEAN, buffers \in BOOLEAN :
         /\ cb' = Checked("DrawHead", "DrawWorld", library, buffers)
         /\ gl' = IF library /\ buffers THEN [gl EXCEPT !.bound = g_on_tex]
                  ELSE gl
    /\ dw' = NoDraw
    /\ mpc' = "drawHandLeft"
    /\ UNCHANGED <<g_face, g_font_tex, g_on_tex, shaderInit, slot, pc, rt, ret,
                   log, glTouched, calls, prog, quadVec, quadLast, build, quit, pose,
                   renderPose, frames, cleanedUp, render, g_ft, face, f,
                   exitCode, mainLog, pressed, reports, ctrl>>

\* DrawHand, registered for the left and for the right hand: the null
\* checks, glBindTexture(GL_TEXTURE_2D, g_on_tex) in the fly example, and
\* handsCube.draw
DrawHand ==
    /\ mpc \in {"drawHandLeft", "drawHandRight"}
    /\ \E library \in BOOLEAN, buffers \in BOOLEAN :
         LET next == IF mpc = "drawHandLeft" THEN "drawHandRight"
                     ELSE "renderEnd"
         IN IF ~(library /\ buffers)
              THEN /\ cb' = Checked("DrawHand", "DrawHand", library, buffers)
                   /\ mpc' = next
                   /\ UNCHANGED <<gl, shaderInit, exitCode, mainLog>>
              ELSE /\ cb' = [Checked("DrawHand", "DrawHand", library, buffers)
                               EXCEPT !.cube = TRUE]
                   /\ gl' = IF prog = "fly" THEN [gl EXCEPT !.bound = g_on_tex]
                            ELSE gl
                   /\ CubeDraw("handsCube", next)
    /\ UNCHANGED <<g_face, g_font_tex, g_on_tex, slot, pc, rt, ret, log,
                   glTouched, calls, prog, quadVec, quadLast, build, mainVars, render,
                   g_ft, face, f, pressed, reports, ctrl>>

\* Render's result:
\* if (!render->Render(params)) { std::cerr << ...; quit = true; }
Main_RenderEnd ==
    /\ mpc = "renderEnd"
    /\ \E rendered \in BOOLEAN :
         /\ quit' = IF rendered THEN quit ELSE TRUE
         /\ mainLog' = IF rendered THEN mainLog
                       ELSE Append(mainLog, "Render() returned false")
    /\ cb' = NoCallback
    /\ mpc' = "loopTest"
    /\ UNCHANGED <<textVars, prog, quadVec, quadLast, build, pose, renderPose, frames,
                   dw, cleanedUp, render, g_ft, face, f, exitCode, pressed, reports,
                   ctrl>>

\* a cleanup that closes FreeType before the face it made
CleanupCalls_LibraryFirst ==
    (IF g_ft THEN << "FT_Done_FreeType" >> ELSE << >>)
    \o (IF g_face THEN << "FT_Done_Face" >> ELSE << >>)
    \o << "delete render" >>

\* what the cleanup calls, in order: the fly example deletes its GL objects
\* first; then if (g_face) FT_Done_Face, if (g_ft) FT_Done_FreeType,
\* delete render
CleanupCalls ==
    (IF prog = "fly"
       THEN << "glDeleteVertexArrays", "glDeleteBuffers", "glDeleteTextures",
               "glDeleteTextures" >>
       ELSE << >>)
    \o (IF g_face THEN << "FT_Done_Face" >> ELSE << >>)
    \o (IF g_ft THEN << "FT_Done_FreeType" >> ELSE << >>)
    \o << "delete render" >>

\* after the loop: the cleanup and return 0, after which the static objects
\* are destroyed
Main_Cleanup ==
    /\ mpc = "cleanup"
    /\ mainLog' = mainLog \o CleanupCalls \o DestructorCalls
    /\ g_face' = FALSE
    /\ face' = 0
    /\ g_ft' = FALSE
    /\ render' = "deleted"
    /\ cleanedUp' = TRUE
    /\ exitCode' = "0"
    /\ mpc' = "returned"
    /\ UNCHANGED <<g_font_tex, g_on_tex, shaderInit, slot, gl, pc, rt, ret, log,
                   glTouched, calls, prog, quadVec, quadLast, build, quit, pose,
                   renderPose, frames, dw, f, pressed, reports, ctrl, cb>>

\* main() at its first statement
InitMain ==
    /\ prog \in {"fly", "basic"}
    /\ g_face = FALSE
    /\ g_font_tex = 0
    /\ g_on_tex = 0
    /\ shaderInit = FALSE
    /\ slot = EmptySlot
    /\ gl = InitGl(0)
    /\ pc = "idle"
    /\ rt = InitRt
    /\ ret = "none"
    /\ log = << >>
    /\ glTouched = FALSE
    /\ calls = 0
    /\ mpc = "start"
    /\ quadVec = << >>
    /\ quadLast = NoQuad
    /\ build = NoBuild
    /\ MainNotStarted

NextMain ==
    \/ Main_CreateRenderManager
    \/ Main_RegisterCallbacks
    \/ Main_OpenDisplay
    \/ Main_SetupRendering
    \/ Main_GlewInit
    \/ Main_InitFreeType
    \/ Main_NewFace
    \/ Main_FontsDone
    \/ Main_SetupGl
    \/ Main_LoopTest
    \/ Main_ContextUpdate
    \/ Main_ButtonCallback
    \/ Main_Fly
    \/ Main_Render
    \/ SetupDisplay
    \/ SetupEye
    \/ DrawWorld_Open
    \/ DrawWorld_NewLine
    \/ DrawWorld_RenderText
    \/ DrawWorld_AfterText
    \/ DrawWorld_Unwind
    \/ DrawWorld_Close
    \/ Basic_DrawWorld
    \/ Basic_DrawWorldEnd
    \/ DrawHead
    \/ DrawHand
    \/ Main_RenderEnd
    \/ Main_Cleanup
    \/ RT_UseProgram
    \/ RT_ActiveTexture
    \/ RT_EnableBlend
    \/ RT_BindFontTexture
    \/ RT_LoadChar
    \/ RT_TexParams
    \/ RT_TexImage
    \/ RT_PlaneQuad
    \/ RT_BufferData
    \/ RT_DrawArrays
    \/ RT_Advance
    \/ RT_Restore
    \/ Basic_Prologue
    \/ Basic_Mask
    \/ Basic_BindFontTexture
    \/ Basic_LoadChar
    \/ Basic_TexParams
    \/ Basic_TexImage
    \/ Basic_Quad
    \/ Basic_BufferData
    \/ Basic_DrawArrays
    \/ Basic_Advance
    \/ Basic_Restore

SpecMain == InitMain /\ [][NextMain]_vars

-----------------------------------------------------------------------------
(* The Windows build: SetConsoleCtrlHandler has the system call CtrlHandler,
   in a thread of its own, for every console event. *)

\* the console events CtrlHandler's switch names, and one it does not
HandledEvents == {"CTRL_C_EVENT", "CTRL_CLOSE_EVENT", "CTRL_BREAK_EVENT",
                  "CTRL_LOGOFF_EVENT", "CTRL_SHUTDOWN_EVENT"}
CtrlEvents == HandledEvents \cup {"other"}

\* SetConsoleCtrlHandler follows the registration of the render callbacks;
\* the handler is called for as long as the process lives
HandlerInstalled ==
    /\ \E i \in DOMAIN mainLog : mainLog[i] = "SetDisplayCallback"
    /\ mpc \notin {"returned", "exited", "terminated"}

\* static BOOL CtrlHandler(DWORD fdwCtrlType), run between any two steps of
\* the main thread: quit = true; return TRUE; for the events of the switch,
\* return FALSE; for any other
CtrlHandler ==
    /\ HandlerInstalled
    /\ ctrl.events < MaxEvents
    /\ \E fdwCtrlType \in CtrlEvents :
         LET known == fdwCtrlType \in HandledEvents IN
         /\ quit' = IF known THEN TRUE ELSE quit
         /\ ctrl' = [ctrl EXCEPT !.events = @ + 1, !.result = known,
                                 !.handled = @ \/ known]
    /\ UNCHANGED <<textVars, prog, mpc, quadVec, quadLast, build, pose, renderPose,
                   frames, dw, cleanedUp, render, g_ft, face, f, exitCode,
                   mainLog, pressed, reports, cb>>

NextCtrl ==
    \/ NextMain
    \/ CtrlHandler

SpecCtrl == InitMain /\ [][NextCtrl]_vars

-----------------------------------------------------------------------------
(* The addFontQuad functions on their own: any of them is applied to a
   vector, with any rectangle (degenerate ones included) and colour, and
   again to the vector it returned. *)

\* corner coordinates, depths and colours tried
QuadCoords == {-1, 2}
QuadDepths == {TextDepth}
QuadColours == {<<Fx(1), Fx(1), Fx(1), 0>>, <<0, 0, 0, MaskAlpha>>}

QuadCall(fn, a, b, c, d, e, col) ==
    [fn |-> fn, a |-> a, b |-> b, c |-> c, d |-> d, e |-> e, col |-> col,
     before |-> quadVec]

\* addFontQuad(v, left, right, top, bottom, depth, R, G, B, alpha)
Apply_addFontQuad ==
    /\ mpc = "quads"
    /\ Len(quadVec) < 6 * MaxQuads
    /\ \E left, right, top, bottom \in QuadCoords, depth \in QuadDepths,
          col \in QuadColours :
         /\ quadVec' = addFontQuad(quadVec, left, right, top, bottom, depth,
                                   col[1], col[2], col[3], col[4])
         /\ quadLast' = QuadCall("addFontQuad", left, right, top, bottom, depth,
                                 col)
    /\ UNCHANGED <<textVars, prog, runVars, mpc, mainVars, build>>

\* addFontQuadXZ(v, left, right, y, maxZ, minZ, R, G, B, alpha)
Apply_addFontQuadXZ ==
    /\ mpc = "quads"
    /\ prog = "fly"
    /\ Len(quadVec) < 6 * MaxQuads
    /\ \E left, right, maxZ, minZ \in QuadCoords, y \in QuadDepths,
          col \in QuadColours :
         /\ quadVec' = addFontQuadXZ(quadVec, left, right, y, maxZ, minZ,
                                     col[1], col[2], col[3], col[4])
         /\ quadLast' = QuadCall("addFontQuadXZ", left, right, y, maxZ, minZ, col)
    /\ UNCHANGED <<textVars, prog, runVars, mpc, mainVars, build>>

\* addFontQuadYZ(v, x, top, bot, maxZ, minZ, R, G, B, alpha)
Apply_addFontQuadYZ ==
    /\ mpc = "quads"
    /\ prog = "fly"
    /\ Len(quadVec) < 6 * MaxQuads
    /\ \E top, bot, maxZ, minZ \in QuadCoords, x \in QuadDepths,
          col \in QuadColours :
         /\ quadVec' = addFontQuadYZ(quadVec, x, top, bot, maxZ, minZ,
                                     col[1], col[2], col[3], col[4])
         /\ quadLast' = QuadCall("addFontQuadYZ", x, top, bot, maxZ, minZ, col)
    /\ UNCHANGED <<textVars, prog, runVars, mpc, mainVars, build>>

InitQuad ==
    /\ prog \in {"fly", "basic"}
    /\ g_face = FALSE
    /\ g_font_tex = 0
    /\ g_on_tex = 0
    /\ shaderInit = FALSE
    /\ slot = EmptySlot
    /\ gl = InitGl(0)
    /\ pc = "idle"
    /\ rt = InitRt
    /\ ret = "none"
    /\ log = << >>
    /\ glTouched = FALSE
    /\ calls = 0
    /\ mpc = "quads"
    /\ quadVec = << >>
    /\ quadLast = NoQuad
    /\ build = NoBuild
    /\ MainNotStarted

NextQuad ==
    \/ Apply_addFontQuad
    \/ Apply_addFontQuadXZ
    \/ Apply_addFontQuadYZ

SpecQuad == InitQuad /\ [][NextQuad]_vars

-----------------------------------------------------------------------------
(* The build: CMakeLists.txt and Superbuild.cmake.  A directory is the     *)
(* sequence of its path's names; the -D definitions of a cmake command     *)
(* line are a sequence of <<name, value>> pairs, of which the last one     *)
(* that names a variable sets it.                                          *)

\* the nesting of configure runs of CMakeLists.txt the model follows
MaxDepth == 2

SourceDir == <<"OSVR-Installer">>
\* CMAKE_BINARY_DIR of the configure run the user starts
TopBinaryDir == <<"OSVR-Installer", "build">>
\* CMAKE_INSTALL_PREFIX when no definition sets it
DefaultPrefix == <<"usr", "local">>
NoDir == << >>

Lookup(args, name, default) ==
    LET hits == SelectSeq(args, LAMBDA a : a[1] = name)
    IN IF hits = << >> THEN default ELSE hits[Len(hits)][2]

\* the common arguments without -DUSE_SUPERBUILD:BOOL=OFF
cmake_common_args_Recursing(binaryDir) ==
    << <<"CMAKE_INSTALL_PREFIX", binaryDir \o <<"INSTALL">> >>,
       <<"CMAKE_INSTALL_RPATH", binaryDir \o <<"INSTALL", "lib">> >>,
       <<"CMAKE_INCLUDE_PATH", binaryDir \o <<"INSTALL", "include">> >> >>

\* set(cmake_common_args ...): the entries that name a directory or the
\* superbuild; the others hand the compiler settings through
cmake_common_args(binaryDir) ==
    << <<"CMAKE_INSTALL_PREFIX", binaryDir \o <<"INSTALL">> >>,
       <<"CMAKE_INSTALL_RPATH", binaryDir \o <<"INSTALL", "lib">> >>,
       <<"CMAKE_INCLUDE_PATH", binaryDir \o <<"INSTALL", "include">> >>,
       <<"USE_SUPERBUILD", "OFF">> >>

Targets == {"submodule_init", "libfunctionality", "OSVR-Core", "jsoncpp",
            "glew", "sdl2", "OSVR-RenderManager", "OSVRInstaller"}

\* add_custom_target(submodule_init COMMAND git submodule update ...)
add_custom_target ==
    [custom |-> TRUE, source |-> SourceDir, download |-> FALSE,
     args |-> << >>, installDir |-> NoDir, depends |-> {}]

ExternalProject_Add(source, download, args, installDir, depends) ==
    [custom |-> FALSE, source |-> source, download |-> download,
     args |-> args, installDir |-> installDir, depends |-> depends]

\* macro(add_external_project MYNAME LOCATION MASTER DEPENDS ARGS INIT_RECURSIVE)
add_external_project(LOCATION, DEPENDS, ARGS, binaryDir) ==
    ExternalProject_Add(SourceDir \o LOCATION, TRUE,
                        cmake_common_args(binaryDir) \o ARGS,
                        binaryDir \o <<"INSTALL">>,
                        DEPENDS \cup {"submodule_init"})

LIBFUNCTIONALITY_ARGS == << <<"BUILD_TESTING", "OFF">> >>
OSVRCORE_ARGS == << <<"BUILD_TESTING", "OFF">> >>
GLEW_ARGS == << <<"ONLY_LIBS", "ON">>, <<"glew-cmake_BUILD_STATIC", "OFF">> >>
SDL2_ARGS(msvc) ==
    IF msvc THEN << <<"CMAKE_SHARED_LINKER_FLAGS", "vcruntime.lib">> >>
    ELSE << >>

\* what include(Superbuild.cmake) declares in a configure run whose
\* CMAKE_BINARY_DIR is binaryDir
Superbuild(binaryDir, msvc) ==
    [t \in Targets |->
       CASE t = "submodule_init" -> add_custom_target
         [] t = "libfunctionality" ->
              add_external_project(<<"vendored", "libfunctionality">>, {},
                                   LIBFUNCTIONALITY_ARGS, binaryDir)
         [] t = "OSVR-Core" ->
              add_external_project(<<"vendored", "OSVR-Core">>,
                                   {"libfunctionality"}, OSVRCORE_ARGS,
                                   binaryDir)
         [] t = "jsoncpp" ->
              add_external_project(<<"vendored", "jsoncpp">>, {}, << >>,
                                   binaryDir)
         [] t = "glew" ->
              add_external_project(<<"vendored", "glew">>, {}, GLEW_ARGS,
                                   binaryDir)
         [] t = "sdl2" ->
              add_external_project(<<"vendored", "sdl2">>, {},
                                   SDL2_ARGS(msvc), binaryDir)
         [] t = "OSVR-RenderManager" ->
              ExternalProject_Add(SourceDir \o <<"vendored", "OSVR-RenderManager">>,
                                  TRUE, cmake_common_args(binaryDir),
                                  binaryDir \o <<"INSTALL">>,
                                  {"OSVR-Core", "jsoncpp", "glew",
                                   "submodule_init", "sdl2"})
         [] t = "OSVRInstaller" ->
              ExternalProject_Add(SourceDir, FALSE,
                                  cmake_common_args(binaryDir),
                                  binaryDir \o <<"INSTALL">>,
                                  {"OSVR-RenderManager"})]

\* option(USE_SUPERBUILD "Build all dependencies in SUPERBUILD mode" ON)
USE_SUPERBUILD(cache) == Lookup(cache, "USE_SUPERBUILD", "ON")

\* the build directory ExternalProject gives OSVRInstaller
InnerBinaryDir(binaryDir) ==
    binaryDir \o <<"OSVRInstaller-prefix", "src", "OSVRInstaller-build">>

\* One configure run of CMakeLists.txt in binaryDir with the definitions
\* cache; found: find_package finds the packages it requires.  The result
\* is "superbuild" (Superbuild.cmake included, return()), "examples" (the
\* example executables are targets of the run) or "failed".
CMakeLists(b, cache, binaryDir, found) ==
    LET super == USE_SUPERBUILD(cache) = "ON"
        run == [depth |-> Len(b.runs), binaryDir |-> binaryDir,
                superbuild |-> super,
                prefix |-> Lookup(cache, "CMAKE_INSTALL_PREFIX", DefaultPrefix)]
    IN IF super
       THEN [b EXCEPT !.runs = Append(@, run),
                      !.included = @ + 1,
                      !.binaryDir = binaryDir,
                      !.projects = Superbuild(binaryDir, b.msvc),
                      !.step = [t \in Targets |-> "declared"],
                      !.result = "superbuild"]
       ELSE [b EXCEPT !.runs = Append(@, run),
                      !.result = IF found THEN "examples" ELSE "failed"]

\* cmake <source dir> in the build directory, with the user's definitions
Cmake_Configure ==
    /\ mpc = "cmake"
    /\ build.stage = "start"
    /\ \E found \in BOOLEAN :
         LET b == CMakeLists(build, build.cache, TopBinaryDir, found)
         IN build' = [b EXCEPT !.stage = b.result]
    /\ UNCHANGED <<textVars, prog, mpc, quadVec, quadLast, mainVars, runVars>>

\* the targets a target DEPENDS on have completed
Ready(t) ==
    /\ build.stage = "superbuild"
    /\ \A d \in build.projects[t].depends : build.step[d] = "installed"

StepTo(t, ok, step) ==
    build' = [build EXCEPT !.step[t] = IF ok THEN step ELSE "failed"]

\* the command of a custom target
Custom_Target(t) ==
    /\ mpc = "cmake"
    /\ Ready(t)
    /\ build.projects[t].custom
    /\ build.step[t] = "declared"
    /\ \E ok \in BOOLEAN : StepTo(t, ok, "installed")
    /\ UNCHANGED <<textVars, prog, mpc, quadVec, quadLast, mainVars, runVars>>

\* DOWNLOAD_COMMAND git submodule update ...
Project_Download(t) ==
    /\ mpc = "cmake"
    /\ Ready(t)
    /\ ~build.projects[t].custom
    /\ build.projects[t].download
    /\ build.step[t] = "declared"
    /\ \E ok \in BOOLEAN : StepTo(t, ok, "downloaded")
    /\ UNCHANGED <<textVars, prog, mpc, quadVec, quadLast, mainVars, runVars>>

ToConfigure(t) ==
    /\ Ready(t)
    /\ ~build.projects[t].custom
    /\ build.step[t] = IF build.projects[t].download THEN "downloaded"
                       ELSE "declared"

\* the configure step of a vendored project: cmake CMAKE_ARGS <its source>
Project_Configure(t) ==
    /\ mpc = "cmake"
    /\ ToConfigure(t)
    /\ build.projects[t].source # SourceDir
    /\ \E ok \in BOOLEAN : StepTo(t, ok, "configured")
    /\ UNCHANGED <<textVars, prog, mpc, quadVec, quadLast, mainVars, runVars>>

\* the configure step of OSVRInstaller: CMakeLists.txt once more, with
\* CMAKE_ARGS as its definitions
Project_ConfigureSelf(t) ==
    /\ mpc = "cmake"
    /\ ToConfigure(t)
    /\ build.projects[t].source = SourceDir
    /\ Len(build.runs) <= MaxDepth
    /\ \E found \in BOOLEAN :
         LET b == CMakeLists(build, build.projects[t].args,
                             InnerBinaryDir(build.binaryDir), found)
         IN build' = IF b.result = "superbuild" THEN b
                     ELSE [b EXCEPT !.step[t] = IF b.result = "examples"
                                                THEN "configured"
                                                ELSE "failed"]
    /\ UNCHANGED <<textVars, prog, mpc, quadVec, quadLast, mainVars, runVars>>

Project_Build(t) ==
    /\ mpc = "cmake"
    /\ build.stage = "superbuild"
    /\ build.step[t] = "configured"
    /\ \E ok \in BOOLEAN : StepTo(t, ok, "built")
    /\ UNCHANGED <<textVars, prog, mpc, quadVec, quadLast, mainVars, runVars>>

\* the install step: into the CMAKE_INSTALL_PREFIX the project was
\* configured with
Project_Install(t) ==
    /\ mpc = "cmake"
    /\ build.stage = "superbuild"
    /\ build.step[t] = "built"
    /\ \E ok \in BOOLEAN :
         build' = IF ok
                  THEN [build EXCEPT
                          !.step[t] = "installed",
                          !.prefix[t] = Lookup(build.projects[t].args,
                                               "CMAKE_INSTALL_PREFIX",
                                               DefaultPrefix)]
                  ELSE [build EXCEPT !.step[t] = "failed"]
    /\ UNCHANGED <<textVars, prog, mpc, quadVec, quadLast, mainVars, runVars>>

\* USE_SUPERBUILD=OFF given by the user: add_executable(...) of the run
Examples_Build ==
    /\ mpc = "cmake"
    /\ build.stage = "examples"
    /\ \E ok \in BOOLEAN :
         build' = [build EXCEPT !.stage = IF ok THEN "built" ELSE "failed"]
    /\ UNCHANGED <<textVars, prog, mpc, quadVec, quadLast, mainVars, runVars>>

\* install(TARGETS ... DESTINATION bin)
Examples_Install ==
    /\ mpc = "cmake"
    /\ build.stage = "built"
    /\ \E ok \in BOOLEAN :
         build' = [build EXCEPT !.stage = IF ok THEN "installed" ELSE "failed"]
    /\ UNCHANGED <<textVars, prog, mpc, quadVec, quadLast, mainVars, runVars>>

\* the definitions the user may give on the command line
UserCaches ==
    {<< >>, << <<"USE_SUPERBUILD", "ON">> >>, << <<"USE_SUPERBUILD", "OFF">> >>,
     << <<"USE_SUPERBUILD", "OFF">>, <<"USE_SUPERBUILD", "ON">> >>}

InitBuild ==
    /\ prog = "fly"
    /\ g_face = FALSE
    /\ g_font_tex = 0
    /\ g_on_tex = 0
    /\ shaderInit = FALSE
    /\ slot = EmptySlot
    /\ gl = InitGl(0)
    /\ pc = "idle"
    /\ rt = InitRt
    /\ ret = "none"
    /\ log = << >>
    /\ glTouched = FALSE
    /\ calls = 0
    /\ mpc = "cmake"
    /\ quadVec = << >>
    /\ quadLast = NoQuad
    /\ MainNotStarted
    /\ \E cache \in UserCaches, msvc \in BOOLEAN :
         build = [stage |-> "start", cache |-> cache, msvc |-> msvc,
                  runs |-> << >>, included |-> 0, binaryDir |-> TopBinaryDir,
                  projects |-> [t \in Targets |-> add_custom_target],
                  step |-> [t \in Targets |-> "none"],
                  prefix |-> [t \in Targets |-> NoDir],
                  result |-> "none"]

NextBuild ==
    \/ Cmake_Configure
    \/ \E t \in Targets :
         \/ Custom_Target(t)
         \/ Project_Download(t)
         \/ Project_Configure(t)
         \/ Project_ConfigureSelf(t)
         \/ Project_Build(t)
         \/ Project_Install(t)
    \/ Examples_Build
    \/ Examples_Install

SpecBuild == InitBuild /\ [][NextBuild]_vars

\* make runs every step whose dependencies have completed, and every
\* command it runs ends, in success or failure
FairBuild == SpecBuild /\ WF_vars(NextBuild)

-----------------------------------------------------------------------------
(* Reading the log *)

OfOp(op) == SelectSeq(log, LAMBDA e : e.op = op)
Count(op) == Len(OfOp(op))

\* the face was missing when the current call began
NoFace == ~g_face

\* the call has ended: by a return, by an exception or by an abort
Returned == pc = "done" /\ calls > 0
Ended == pc \in {"done", "thrown", "crashed"} /\ calls > 0

\* the characters render_text tried to load, in order
Tried == SelectSeq(log, LAMBDA e : e.op \in {"load", "loadfail"})
CharsOf(evs) == [i \in 1..Len(evs) |-> evs[i].ch]

\* the glyphs loaded strictly before position i of the log that are not the
\* glyph position i belongs to (whose own "load" is the last one before i)
LoadedBefore(i) ==
    LET ls == SelectSeq(SubSeq(log, 1, i - 1), LAMBDA e : e.op = "load")
    IN  IF Len(ls) = 0 THEN << >> ELSE SubSeq(ls, 1, Len(ls) - 1)

\* the quotient of a 26.6 value by 64 with the fraction dropped: the q with
\* a = 64 * q + r where |r| < 64 and r has the sign of a
WholePixels(a) ==
    CHOOSE q \in -8..8 :
        LET r == a - 64 * q
        IN  /\ r > -64 /\ r < 64
            /\ (a >= 0 => r >= 0)
            /\ (a <= 0 => r <= 0)

RECURSIVE SumAdvX(_), SumAdvY(_)
SumAdvX(evs) ==
    IF evs = << >> THEN 0
    ELSE WholePixels(GlyphOf(Head(evs).ch).advx) * rt.sx + SumAdvX(Tail(evs))
SumAdvY(evs) ==
    IF evs = << >> THEN 0
    ELSE WholePixels(GlyphOf(Head(evs).ch).advy) * rt.sy + SumAdvY(Tail(evs))

\* the cursor the k-th loaded glyph must be placed with
CursorFor(i) ==
    <<rt.x0 + SumAdvX(LoadedBefore(i)), rt.y0 + SumAdvY(LoadedBefore(i)), rt.z0>>

-----------------------------------------------------------------------------
(* C1: in the fly example's render_text, with plane one of XY, XZ, YZ and no
   GL error reported, there is one draw per character whose glyph loaded,
   each draw submits exactly the six vertices of that glyph's quad (the
   vector is cleared and refilled per glyph), and a character whose glyph
   fails to load causes no upload, no draw and no cursor advance. *)
C1_OneDrawPerLoadedGlyph ==
    (prog = "fly" /\ Ended /\ rt.plane \in {XY, XZ, YZ} /\ ~rt.glErr) =>
      /\ Count("draw") = Count("load")
      /\ Count("upload") = Count("load")
      /\ (pc = "done" /\ g_face) => CharsOf(Tried) = rt.text
      /\ \A i \in 1..Len(log) :
           /\ log[i].op = "draw" =>
                /\ Len(log[i].verts) = 6
                /\ log[i].verts = log[i - 2].verts
                /\ log[i - 2].op = "quad" /\ log[i - 2].ch = log[i].ch
           /\ log[i].op = "loadfail" =>
                \/ i = Len(log)
                \/ /\ log[i + 1].op \in {"load", "loadfail"}
                   /\ log[i + 1].cur = log[i].cur

C1_Witness ==
    /\ prog = "fly" /\ pc = "done" /\ ret = "true" /\ rt.plane = XZ
    /\ Len(rt.text) = 2
    /\ Count("draw") = 1 /\ Count("loadfail") = 1
    /\ log[1].op = "loadfail"

-----------------------------------------------------------------------------
\* the quad render_text builds for character ch at cursor c
QuadAt(c, ch) ==
    IF prog = "fly"
      THEN PlaneQuad(<< >>, rt.plane, GlyphOf(ch), c[1], c[2], c[3], rt.sx, rt.sy)
      ELSE addFontQuad(<< >>, c[1] + GlyphOf(ch).left * rt.sx,
                       c[1] + GlyphOf(ch).left * rt.sx + GlyphOf(ch).width * rt.sx,
                       c[2] + GlyphOf(ch).top * rt.sy,
                       c[2] + GlyphOf(ch).top * rt.sy - GlyphOf(ch).rows * rt.sy,
                       TextDepth, Fx(1), Fx(1), Fx(1), 0)

\* the cursor left by the last advance before position i, or the start
CursorBefore(i) ==
    LET as == SelectSeq(SubSeq(log, 1, i - 1), LAMBDA e : e.op = "advance")
    IN  IF as = << >> THEN <<rt.x0, rt.y0, rt.z0>> ELSE as[Len(as)].cur

(* C2: within one render_text call (either example) each rendered glyph goes
   through rasterize, upload, quad build, draw, cursor advance in that order;
   the next glyph is not rasterized before the previous one has been drawn
   and advanced over; and a glyph's quad is placed with the cursor that does
   not yet include that glyph's own advance. *)
C2_GlyphStepsInOrder ==
    \A i \in 1..Len(log) :
      LET e == log[i] IN
      /\ e.op = "load" =>
           i = 1 \/ log[i - 1].op \in {"advance", "loadfail", "maskdraw"}
      /\ e.op = "upload" => i > 1 /\ log[i - 1].op = "load" /\ log[i - 1].ch = e.ch
      /\ e.op = "quad" => i > 1 /\ log[i - 1].op = "upload" /\ log[i - 1].ch = e.ch
      /\ e.op = "buffer" => i > 1 /\ log[i - 1].op = "quad" /\ log[i - 1].ch = e.ch
      /\ e.op = "draw" => i > 1 /\ log[i - 1].op = "buffer" /\ log[i - 1].ch = e.ch
      /\ e.op = "advance" => i > 1 /\ log[i - 1].op = "draw" /\ log[i - 1].ch = e.ch
      /\ (e.op = "quad" /\ (prog = "basic" \/ rt.plane \in {XY, XZ, YZ})) =>
           /\ e.cur = CursorBefore(i)
           /\ e.verts = QuadAt(CursorBefore(i), e.ch)

C2_Witness ==
    /\ pc = "done" /\ Count("advance") = 2
    /\ log[Len(log)].op = "advance"
    /\ OfOp("quad")[2].cur # OfOp("quad")[1].cur

-----------------------------------------------------------------------------
(* C3: in render_text (both examples) the k-th loaded glyph is placed with
   the cursor x_0 + sum (advance_i.x / 64) * sx, y_0 + sum (advance_i.y / 64)
   * sy over the glyphs i < k that loaded, the division dropping the
   fraction of the 26.6 value before the scaling; z is never advanced. *)
C3_CursorIsSumOfWholeAdvances ==
    \A i \in 1..Len(log) :
      /\ log[i].op \in {"upload", "quad", "buffer", "draw"} =>
           log[i].cur = CursorFor(i)
      /\ log[i].op \in {"load", "loadfail", "advance"} => log[i].cur[3] = rt.z0

C3_Witness ==
    /\ pc = "done" /\ Count("quad") = 2
    /\ OfOp("quad")[1].ch = "B"
    /\ rt.sx # rt.sy
    /\ OfOp("quad")[2].cur = <<rt.x0 - rt.sx, rt.y0 + rt.sy, rt.z0>>

-----------------------------------------------------------------------------
\* the coordinate that is constant over a text plane: z for XY, y for XZ,
\* x for YZ
OutOfPlane(plane, pos) ==
    CASE plane = XY -> pos[3]
      [] plane = XZ -> pos[2]
      [] plane = YZ -> pos[1]

\* the vertices of all draws of the current call
DrawnVertices ==
    UNION {{log[i].verts[n] : n \in 1..Len(log[i].verts)} :
             i \in {j \in 1..Len(log) : log[j].op = "draw"}}

(* C4: in the fly example all quads of one render_text call lie in one
   plane: the same z for XY, the same y for XZ, the same x for YZ. *)
C4_QuadsInOnePlane ==
    (prog = "fly" /\ rt.plane \in {XY, XZ, YZ}) =>
      \A v, w \in DrawnVertices :
         OutOfPlane(rt.plane, v.pos) = OutOfPlane(rt.plane, w.pos)

-----------------------------------------------------------------------------
\* the name of the one font texture: the first name glGenTextures hands out
\* after the textures main() made
FontTexName == g_on_tex + 1

(* C5: at most one font texture is ever generated (g_font_tex is made on
   first use and reused), every glyph upload targets it and replaces its
   image, and every occurrence of a character is rasterized and uploaded
   again: nothing is reused from a cache. *)
C5_OneFontTextureNoCache ==
    /\ gl.names <= FontTexName
    /\ g_font_tex \in {0, FontTexName}
    /\ (g_font_tex = 0) <=> (gl.names = g_on_tex)
    /\ prog = "fly" => gl.image[g_on_tex] = "on"
    /\ \A i \in 1..Len(log) :
         /\ log[i].op = "upload" =>
              /\ log[i].tex = g_font_tex /\ g_font_tex # 0
              /\ log[i - 1].op = "load" /\ log[i - 1].ch = log[i].ch
         /\ log[i].op = "draw" =>
              log[i - 3].op = "upload" /\ log[i - 3].ch = log[i].ch
    /\ Count("upload") > 0 =>
         gl.image[g_font_tex] = OfOp("upload")[Count("upload")].ch
    /\ (Returned /\ g_face /\ (prog = "basic" \/ ret = "true")) =>
         /\ CharsOf(Tried) = rt.text
         /\ CharsOf(OfOp("upload")) = CharsOf(OfOp("load"))
         /\ CharsOf(OfOp("draw")) = CharsOf(OfOp("load"))

C5_Witness ==
    /\ calls = 2 /\ pc = "done"
    /\ CharsOf(OfOp("upload")) = <<"A", "A">>
    /\ Count("draw") = 2
    /\ gl.names = FontTexName

-----------------------------------------------------------------------------
\* the last line written to std::cerr by the current call, "" if none
LastCerr ==
    IF Count("cerr") = 0 THEN "" ELSE OfOp("cerr")[Count("cerr")].ch

\* the messages of the seven checkpoints
CheckpointMessages ==
    {"render_text(): Error after use program",
     "render_text(): Error after texture set",
     "render_text(): Error after blend enable",
     "render_text(): Error binding texture",
     "render_text(): Error setting texture params",
     "render_text(): Error writing texture",
     "render_text(): Error buffering data"}

\* false with a message exactly for a missing face or a GL error, true in
\* every other case
ReturnMatchesFailure ==
    /\ (NoFace \/ rt.glErr) =>
         /\ ret = "false"
         /\ log[Len(log)].op = "cerr"
         /\ NoFace => LastCerr = "render_text(): No face" /\ ~glTouched
         /\ ~NoFace => LastCerr \in CheckpointMessages
    /\ ~(NoFace \/ rt.glErr) =>
         /\ ret = "true"
         /\ Count("cerr") = 0

(* C6 as stated: every call of the fly example's render_text ends by
   returning, false with a message exactly when the face is missing or
   glGetError reported an error at a checkpoint, true otherwise. *)
C6_AlwaysReturnsBool ==
    (prog = "fly" /\ Ended) => (pc = "done" /\ ReturnMatchesFailure)

(* C6: whenever the fly example's render_text returns, it returns false,
   after logging a message, exactly when the face is missing or glGetError
   reported an error at one of the seven checkpoints, and true otherwise,
   glyph load failures included; no GL call is made when the face is
   missing.  It does not return when the first use of the shader throws or
   when buffering the empty vector of an unknown plane aborts. *)
C6_ReturnValueWhenItReturns ==
    /\ (prog = "fly" /\ Returned) => ReturnMatchesFailure
    /\ (prog = "fly" /\ pc = "thrown") =>
         ~shaderInit /\ ret = "none" /\ ~rt.glErr
    /\ (prog = "fly" /\ pc = "crashed") =>
         rt.plane \notin {XY, XZ, YZ} /\ ret = "none" /\ ~rt.glErr

C6_Witness ==
    /\ prog = "fly" /\ pc = "done" /\ ret = "true"
    /\ Len(rt.text) = 2 /\ Count("loadfail") = 2

-----------------------------------------------------------------------------
(* What a call of the fly example's render_text must do, computed from its
   arguments, the face's glyphs and the answers of FreeType and OpenGL alone *)

\* how the call ended: "ok", the message of the failure, "throw" or "abort"
Outcome ==
    CASE pc = "thrown" -> "throw"
      [] pc = "crashed" -> "abort"
      [] OTHER -> IF Count("cerr") = 0 THEN "ok" ELSE LastCerr

\* FreeType's answers to the loads the call tried: TRUE for a glyph loaded
LoadAnswers == [j \in 1..Len(Tried) |-> Tried[j].op = "load"]

\* the upload of character ch at cursor c and the draw of its quad
ExpectedUpload(ch, c) ==
    [op |-> "upload", ch |-> ch, cur |-> c, tex |-> FontTexName,
     verts |-> << >>, blend |-> TRUE]
ExpectedDraw(ch, c) ==
    [op |-> "draw", ch |-> ch, cur |-> c, tex |-> FontTexName,
     verts |-> IF rt.plane \in {XY, XZ, YZ} THEN QuadAt(c, ch) ELSE << >>,
     blend |-> TRUE]

\* the uploads and draws from the j-th tried character on, the cursor at c
RECURSIVE ExpectedOps(_, _)
ExpectedOps(j, c) ==
    IF j > Len(LoadAnswers) THEN << >>
    ELSE LET ch == rt.text[j]
             last == j = Len(LoadAnswers)
             nc == <<c[1] + WholePixels(GlyphOf(ch).advx) * rt.sx,
                     c[2] + WholePixels(GlyphOf(ch).advy) * rt.sy, c[3]>>
         IN  IF ~LoadAnswers[j] THEN ExpectedOps(j + 1, c)
             ELSE IF last /\ Outcome = "render_text(): Error setting texture params"
               THEN << >>
             ELSE IF last /\ Outcome \in {"render_text(): Error writing texture",
                                          "render_text(): Error buffering data",
                                          "abort"}
               THEN << ExpectedUpload(ch, c) >>
             ELSE << ExpectedUpload(ch, c), ExpectedDraw(ch, c) >>
                    \o ExpectedOps(j + 1, nc)

ExpectedReturn ==
    CASE Outcome = "ok" -> "true"
      [] Outcome \in {"throw", "abort"} -> "none"
      [] OTHER -> "false"

(* C8: render_text is stateless per call: the uploads and draws of every
   call of the fly example, with their textures, blend state and vertex
   data, and its return value are those computed from the call's arguments,
   the face's glyphs and the FreeType and GL answers alone, whatever calls
   came before; between calls only the font texture and the shader program,
   each made once, are kept. *)
C8_CallDependsOnArgumentsOnly ==
    (prog = "fly" /\ Ended) =>
      /\ SelectSeq(log, LAMBDA e : e.op \in {"upload", "draw"})
           = ExpectedOps(1, <<rt.x0, rt.y0, rt.z0>>)
      /\ ret = ExpectedReturn
      /\ g_font_tex \in {0, FontTexName}

C8_Witness ==
    /\ prog = "fly" /\ calls = 2 /\ pc = "done" /\ ret = "true"
    /\ CharsOf(OfOp("draw")) = <<"A", "B">>
    /\ rt.plane = XZ
    /\ OfOp("draw")[2].verts = QuadAt(CursorFor(Len(log) - 1), "B")

-----------------------------------------------------------------------------
(* The last addFontQuad call, read as a rectangle *)

\* the six vertices the last call appended
Appended == SubSeq(quadVec, Len(quadLast.before) + 1, Len(quadVec))

\* the rectangle's two pairs of in-plane bounds and its out-of-plane value,
\* from the arguments of the call
RectU ==
    IF quadLast.fn = "addFontQuadYZ" THEN {quadLast.b, quadLast.c}
    ELSE {quadLast.a, quadLast.b}
RectV ==
    IF quadLast.fn = "addFontQuad" THEN {quadLast.c, quadLast.d}
    ELSE {quadLast.d, quadLast.e}
RectW ==
    CASE quadLast.fn = "addFontQuad" -> quadLast.e
      [] quadLast.fn = "addFontQuadXZ" -> quadLast.c
      [] quadLast.fn = "addFontQuadYZ" -> quadLast.a
NonDegenerate == Cardinality(RectU) = 2 /\ Cardinality(RectV) = 2

\* a position's in-plane coordinates and its out-of-plane coordinate
InPlane(pos) ==
    CASE quadLast.fn = "addFontQuad" -> <<pos[1], pos[2]>>
      [] quadLast.fn = "addFontQuadXZ" -> <<pos[1], pos[3]>>
      [] quadLast.fn = "addFontQuadYZ" -> <<pos[2], pos[3]>>
OffPlane(pos) ==
    CASE quadLast.fn = "addFontQuad" -> pos[3]
      [] quadLast.fn = "addFontQuadXZ" -> pos[2]
      [] quadLast.fn = "addFontQuadYZ" -> pos[1]

\* twice the signed area of the triangle p, q, r: its sign is the winding
Winding(p, q, r) ==
    (q[1] - p[1]) * (r[2] - p[2]) - (q[2] - p[2]) * (r[1] - p[1])
Corner(n) == InPlane(Appended[n].pos)
TriangleCorners(first) == {Corner(n) : n \in first..(first + 2)}

(* C9: addFontQuad, addFontQuadXZ and addFontQuadYZ, given a non-degenerate
   rectangle, append six vertices making two triangles of the same winding
   that share a diagonal and use exactly the four corners; each corner has
   one texture coordinate and the four corners get (0,0), (1,0), (0,1),
   (1,1) once each; all six vertices have the colour given and the same
   out-of-plane coordinate.  Degenerate or not, the vertices already in the
   vector stay as they were. *)
C9_QuadIsTwoTrianglesOfOneRectangle ==
    (mpc = "quads" /\ quadLast.fn # "none") =>
      /\ Len(quadVec) = Len(quadLast.before) + 6
      /\ SubSeq(quadVec, 1, Len(quadLast.before)) = quadLast.before
      /\ \A n \in 1..6 :
           /\ Appended[n].col = quadLast.col
           /\ OffPlane(Appended[n].pos) = RectW
      /\ NonDegenerate =>
           /\ Winding(Corner(1), Corner(2), Corner(3))
                * Winding(Corner(4), Corner(5), Corner(6)) > 0
           /\ \E p, q \in TriangleCorners(1) :
                /\ TriangleCorners(1) \cap TriangleCorners(4) = {p, q}
                /\ p[1] # q[1] /\ p[2] # q[2]
           /\ TriangleCorners(1) \cup TriangleCorners(4) = RectU \X RectV
           /\ \A n, k \in 1..6 :
                (Corner(n) = Corner(k)) <=> (Appended[n].tex = Appended[k].tex)
           /\ {Appended[n].tex : n \in 1..6} = {0, 1} \X {0, 1}

C9_Witness ==
    /\ mpc = "quads" /\ quadLast.fn = "addFontQuadYZ" /\ NonDegenerate
    /\ Len(quadLast.before) = 6
    /\ quadLast.d < quadLast.e
    /\ Len(quadVec) = 12

-----------------------------------------------------------------------------
\* the process has ended: main() returned, exit() was called, or an
\* exception nobody catches ended it
ProcessEnded == mpc \in {"returned", "exited", "terminated"}

\* main() returned from its startup, before the render loop
StartupFailed == mpc = "returned" /\ exitCode \in {"1", "2", "3", "-1"}

(* C7: every failure met while the render loop runs only prints and/or sets
   quit: no failure path ends the process inside a callback, the loop is
   left through while (!quit), and the cleanup at the end of main() has run
   whenever the process has ended. *)
C7_FailuresOnlySetQuit ==
    (prog = "fly" /\ ProcessEnded /\ ~StartupFailed)
        => (mpc = "returned" /\ quit /\ cleanedUp)

-----------------------------------------------------------------------------
(* The pose the frames read so far must have produced *)

RECURSIVE SpinProduct(_, _)
\* the product, latest on the left, of the spin rotations of the first k
\* frames: of every frame, or of those whose head pose was read
SpinProduct(k, everyFrame) ==
    IF k = 0 THEN IdentityQuat
    ELSE IF everyFrame \/ frames[k].ok
      THEN q_mult(q_from_axis_angle(Spin(frames[k])),
                  SpinProduct(k - 1, everyFrame))
      ELSE SpinProduct(k - 1, everyFrame)

\* the sum of the spin angles of the frames whose head pose was read
RECURSIVE SpinSum(_)
SpinSum(k) ==
    IF k = 0 THEN 0
    ELSE SpinSum(k - 1) + (IF frames[k].ok THEN Spin(frames[k]) ELSE 0)

\* the sum of the deltas of the frames, of the first k, whose head pose was
\* read and whose dt is under 0.5 s
RECURSIVE DeltaSum(_)
DeltaSum(k) ==
    IF k = 0 THEN <<0, 0, 0>>
    ELSE IF frames[k].ok /\ frames[k].dt < TooLong
      THEN Translated(DeltaSum(k - 1),
                      Delta([translation |-> <<0, 0, 0>>,
                             rotation |-> SpinProduct(k - 1, FALSE)],
                            frames[k]))
      ELSE DeltaSum(k - 1)

\* Render has been handed the pose of the latest frame
HandedToRender == mpc \in {"drawWorld", "drawLoop", "renderText", "renderEnd"}

(* C10 as stated: the rotation is the ordered product of the spin rotations
   of every frame. *)
C10_RotationSpinsEveryFrame ==
    /\ pose.translation = DeltaSum(Len(frames))
    /\ pose.rotation = SpinProduct(Len(frames), TRUE)
    /\ HandedToRender => renderPose = pose

(* C10: the fly example's room-to-world pose starts at identity and is never
   reset; after any frames its translation is the sum of the deltas of
   exactly the frames whose head pose was read and whose dt was under 0.5 s,
   its rotation is the ordered product of the spin rotations about Y of
   exactly the frames whose head pose was read (whatever their dt), a turn
   about Y by the sum of their spins; and the pose handed to Render is the
   pose after that frame's update. *)
C10_PoseIsSumOfFrames ==
    /\ pose.translation = DeltaSum(Len(frames))
    /\ pose.rotation = SpinProduct(Len(frames), FALSE)
    /\ pose.rotation = q_from_axis_angle(SpinSum(Len(frames)))
    /\ frames = << >> => pose = IdentityPose
    /\ HandedToRender => renderPose = pose

C10_Witness ==
    /\ mpc = "drawWorld" /\ Len(frames) = 2
    /\ frames[1].ok /\ frames[1].dt >= TooLong /\ frames[1].rsx # 0
    /\ frames[2].ok /\ frames[2].dt < TooLong
    /\ pose.rotation # IdentityQuat
    /\ pose.translation # <<0, 0, 0>>
    /\ renderPose = pose

-----------------------------------------------------------------------------
\* the inputs of the frame whose pose is about to be handed to Render
ThisFrame == frames[Len(frames)]

\* q and -q are one rotation
SameRotation(q, r) == q = r \/ q = <<-r[1], -r[2], -r[3], -r[4]>>

(* C11: in the fly example a frame whose readings are too far apart
   (dt >= 0.5 s) hands Render the very pose of the frame before it,
   translation and rotation alike, whatever the sticks and the trigger
   read.  (The code guards the translation only: the spin is applied
   before the test on dt.) *)
C11_LongFrameKeepsPose ==
    (mpc = "render" /\ frames # << >> /\ ThisFrame.dt >= TooLong)
        => /\ pose.translation = renderPose.translation
           /\ SameRotation(pose.rotation, renderPose.rotation)

\* what does hold of such a frame: the translation is the previous one
C11_LongFrameKeepsTranslation ==
    (mpc = "render" /\ frames # << >> /\ ThisFrame.dt >= TooLong)
        => pose.translation = renderPose.translation

-----------------------------------------------------------------------------
(* C12: in both examples, once a context.update() has delivered a report
   of button 1 pressed, quit is true from the return of that update on,
   whatever other reports the update delivered, so that the loop test at
   the end of the iteration leaves the loop.  (The callback stores the
   state of each report in quit, so a later report with state 0 clears
   it.) *)
C12_PressSetsQuit == (pressed /\ mpc # "delivering") => quit

-----------------------------------------------------------------------------
(* Readers of main()'s log *)

\* the context.update() and Render calls made so far, in order
LoopCalls == SelectSeq(mainLog, LAMBDA e : e \in {"update", "Render"})

\* where in the log Render returned false
RenderFailedAt ==
    {i \in DOMAIN mainLog : mainLog[i] = "Render() returned false"}

\* the releases logged after place i
ReleasesAfter(i) ==
    SelectSeq(SubSeq(mainLog, i + 1, Len(mainLog)),
              LAMBDA e : e \in {"FT_Done_Face", "FT_Done_FreeType",
                                "delete render"})

\* a font was found at startup (FT_Set_Pixel_Sizes is called only then)
FontFound == \E i \in DOMAIN mainLog : mainLog[i] = "FT_Set_Pixel_Sizes"

(* C13: in both examples every iteration of the render loop is one
   context.update() followed by one Render, an iteration is begun only
   while quit is false and the loop is left only when quit is true; once
   Render has returned false no further update or Render call is made, the
   font face, the FreeType library and the RenderManager are released in
   that order (the face and the library if a font was loaded), and main
   returns 0. *)
C13_LoopUntilQuitThenCleanup ==
    /\ \A i \in DOMAIN LoopCalls :
         LoopCalls[i] = IF i % 2 = 1 THEN "update" ELSE "Render"
    /\ mpc = "update" => ~quit
    /\ mpc = "cleanup" => quit
    /\ \A i \in RenderFailedAt :
         /\ quit
         /\ mpc \in {"loopTest", "cleanup", "returned"}
         /\ \A j \in DOMAIN mainLog :
              j > i => mainLog[j] \notin {"update", "Render"}
         /\ mpc = "returned" =>
              /\ exitCode = "0"
              /\ render = "deleted" /\ ~g_face /\ ~g_ft
              /\ ReleasesAfter(i) =
                   (IF FontFound THEN << "FT_Done_Face", "FT_Done_FreeType" >>
                    ELSE << >>) \o << "delete render" >>

\* main() has returned after a second iteration whose Render returned
\* false, with a font loaded
C13_Witness ==
    /\ mpc = "returned"
    /\ RenderFailedAt # {}
    /\ Len(LoopCalls) = 4
    /\ FontFound

-----------------------------------------------------------------------------
(* C14: the font initialisation uses the first entry of FONTS it can open:
   once an FT_New_Face call has succeeded, g_face refers to that face until
   the cleanup releases it, whatever becomes of the later entries.  (The
   loop has no break: every later entry that opens replaces g_face.) *)
C14_FirstFontStays ==
    [][(face # 0 /\ mpc # "cleanup") => face' = face]_vars

-----------------------------------------------------------------------------
\* the texture that is to be bound while no text is drawn: the always-on
\* texture in the fly example, texture 0 in the basic example
RestingTexture == IF prog = "fly" THEN g_on_tex ELSE 0

\* blending off, the pixel store at its defaults, the resting texture bound
GlAtDefaults ==
    /\ gl.blend = FALSE
    /\ gl.align = 4
    /\ gl.rowlen = 0
    /\ gl.bound = RestingTexture

(* C15: whenever render_text has returned, in either example and whether
   it succeeded or failed, blending is disabled, GL_UNPACK_ALIGNMENT is 4,
   GL_UNPACK_ROW_LENGTH is 0 and the resting texture is bound.  (The fly
   example's return false at a checkpoint skips the restoring lines.) *)
C15_GlRestoredOnEveryReturn == Returned => GlAtDefaults

\* what does hold: the state is restored when the fly example's call
\* returns true, and on every return of the basic example's call that
\* found a face
C15_GlRestoredOnSuccess ==
    (Returned /\ (ret = "true" \/ (prog = "basic" /\ g_face))) => GlAtDefaults

\* the failure the claim is refuted by: a call that has enabled blending
\* and bound the font texture returns false with both still in place
C15_LeftDirty ==
    /\ Returned /\ ret = "false"
    /\ gl.blend /\ gl.bound = g_font_tex /\ g_font_tex # g_on_tex

-----------------------------------------------------------------------------
(* C16: on Windows, after a handled console event has reached CtrlHandler
   the render loop runs on for no more than the rest of the iteration and
   one further iteration: at most one context.update() is begun after the
   event, under every interleaving of the handler with the main thread.
   (A button report with state 0 delivered after the event stores false
   in quit again.) *)
C16_HandledEventEndsLoop == ctrl.updates <= 1

\* what does hold of the handler itself: it returns TRUE with quit set, or
\* FALSE with quit untouched
C16_HandlerResult ==
    [][ctrl'.events # ctrl.events =>
         IF ctrl'.result THEN quit' ELSE quit' = quit]_vars

-----------------------------------------------------------------------------
\* the place of a call in main()'s log (0: not made)
PlaceOf(call) ==
    IF \E i \in DOMAIN mainLog : mainLog[i] = call
      THEN CHOOSE i \in DOMAIN mainLog : mainLog[i] = call
      ELSE 0

\* what main() writes when a startup step fails, and what it then returns
StartupFailures ==
    { <<"Could not create RenderManager", "createRenderManager", "1">>,
      <<"Could not open display", "OpenDisplay", "2">>,
      <<"Attempted to run an OpenGL program", "OpenDisplay", "3">>,
      <<"SetupRendering: No OpenGL GraphicsLibrary", "SetupRendering", "3">>,
      <<"Failed ot initialize GLEW", "glewInit", "-1">> }

\* the startup steps, in the order main() takes them
StartupSteps ==
    << "createRenderManager", "OpenDisplay", "SetupRendering", "glewInit" >>

\* the callbacks a RenderManager is given before it is opened
CallbackRegistrations ==
    { "SetViewProjectionCallback", "SetDisplayCallback", "AddRenderCallback /",
      "AddRenderCallback /me/hands/left", "AddRenderCallback /me/hands/right" }
    \cup (IF prog = "fly" THEN { "AddRenderCallback /me/head" } ELSE {})

(* C17: in both examples main() begins the render loop, and calls Render,
   only after createRenderManager, OpenDisplay, the test of the OpenGL
   library, SetupRendering and glewInit have succeeded in that order; the
   failure of one of them is followed by main() returning 1, 2, 3, 3 or -1
   with no update and no Render call made; and every render callback is
   registered before OpenDisplay is called. *)
C17_StartupGuardsTheLoop ==
    /\ (PlaceOf("update") # 0 \/ PlaceOf("Render") # 0
            \/ mpc \in {"loopTest", "update", "cleanup"}) =>
         /\ \A k \in 1..Len(StartupSteps) : PlaceOf(StartupSteps[k]) # 0
         /\ \A k \in 1..(Len(StartupSteps) - 1) :
              PlaceOf(StartupSteps[k]) < PlaceOf(StartupSteps[k + 1])
         /\ \A fl \in StartupFailures : PlaceOf(fl[1]) = 0
    /\ \A fl \in StartupFailures :
         PlaceOf(fl[1]) # 0 =>
           /\ PlaceOf(fl[1]) = PlaceOf(fl[2]) + 1
           /\ mpc = "returned" /\ exitCode = fl[3]
           /\ PlaceOf("update") = 0 /\ PlaceOf("Render") = 0
           /\ \A k \in 1..Len(StartupSteps) :
                PlaceOf(StartupSteps[k]) <= PlaceOf(fl[2])
    /\ StartupFailed => \E fl \in StartupFailures : PlaceOf(fl[1]) # 0
    /\ PlaceOf("OpenDisplay") # 0 =>
         \A c \in CallbackRegistrations :
           PlaceOf(c) # 0 /\ PlaceOf(c) < PlaceOf("OpenDisplay")

\* Render has been called in a run whose startup succeeded
C17_Witness ==
    /\ PlaceOf("Render") # 0
    /\ PlaceOf("glewInit") # 0

\* main() has returned -1 after glewInit failed
C17_WitnessFailure ==
    /\ mpc = "returned"
    /\ exitCode = "-1"
    /\ PlaceOf("Failed ot initialize GLEW") # 0

-----------------------------------------------------------------------------
\* the render callback entered last was handed a null OpenGL library or a
\* null OpenGL render buffer
NullCallback == cb.name # "none" /\ ~(cb.library /\ cb.buffers)

(* C18: a render callback (SetupDisplay, SetupEye, DrawWorld, DrawHead,
   DrawHand) entered with a null OpenGL library or a null OpenGL render
   buffer writes one message and returns: it makes no GL call, does not
   open the map file, calls neither render_text nor Cube::draw, and leaves
   quit, the GL state and the shader as they were; SetupRendering returns
   false for a null library and true otherwise. *)
C18_NullPointersOnlyLog ==
    /\ NullCallback =>
         /\ Len(cb.cerr) = 1
         /\ cb.cerr[1].what = IF ~cb.library THEN "No OpenGL GraphicsLibrary"
                              ELSE "No OpenGL RenderBuffer"
         /\ ~cb.glCalls /\ ~cb.file /\ ~cb.text /\ ~cb.cube
         /\ gl = cb.gl
         /\ calls = cb.calls
         /\ shaderInit = cb.shaderInit
         /\ quit = cb.quit
         /\ mpc \notin {"exited", "terminated", "renderText", "drawLoop"}
    /\ SetupRendering(FALSE) = FALSE
    /\ SetupRendering(TRUE) = TRUE

\* DrawHead has returned at its null check with the font texture still
\* bound by a failed render_text
C18_Witness ==
    /\ NullCallback
    /\ cb.name = "DrawHead"
    /\ gl.bound # g_on_tex

-----------------------------------------------------------------------------
\* a position or cursor of the given plane read as <<reading axis, up axis,
\* depth>>: XZ is XY with Y replaced by Z, YZ is XY with X replaced by Z
Relabel(plane, p) ==
    CASE plane = XZ -> <<p[1], p[3], p[2]>>
      [] plane = YZ -> <<p[3], p[2], p[1]>>
      [] OTHER      -> p

\* the switch on plane has just built the quad of the glyph in the slot
QuadBuilt == prog = "fly" /\ pc = "bufferData" /\ rt.plane \in {XY, XZ, YZ}

TexCorners == {<<0, 0>>, <<0, 1>>, <<1, 0>>, <<1, 1>>}

\* every vertex of the quad lies where the texture corner it carries
\* belongs: u along the reading axis from start, v along the up axis from
\* top, with flipU or flipV saying that the texture runs the other way
PlacedAt(plane, flipU, flipV) ==
    LET v   == rt.vertexBufferData
        c   == Relabel(plane, Cursor)
        w   == slot.width * rt.sx
        h   == slot.rows * rt.sy
        x2  == c[1] + slot.left * rt.sx
        y2  == c[2] + slot.top * rt.sy
    IN  /\ Len(v) = 6
        /\ {v[i].tex : i \in 1..6} = TexCorners
        /\ \A i \in 1..6 :
             LET q == Relabel(plane, v[i].pos)
                 u == IF flipU THEN 1 - v[i].tex[1] ELSE v[i].tex[1]
                 t == IF flipV THEN 1 - v[i].tex[2] ELSE v[i].tex[2]
             IN  /\ q[1] = x2 + u * w
                 /\ q[2] = y2 - t * h
                 /\ q[3] = c[3]

(* C19: the three plane variants of the fly example's render_text place a
   glyph identically up to relabelling of axes: the quad spans width*sx
   along the reading axis from cursor + bitmap_left*sx and rows*sy along
   the up axis ending at cursor + bitmap_top*sy, with the texture's u=0
   edge on the edge at cursor + bitmap_left*sx and its v=0 edge on the edge
   at cursor + bitmap_top*sy. *)
C19_PlanesPlaceAlike == QuadBuilt => PlacedAt(rt.plane, FALSE, FALSE)

\* what the code does: the three quads cover the same rectangle, but XZ
\* carries the texture upside down (v=0 on the edge at top - rows*sy) and
\* YZ carries it mirrored (u=0 on the edge at left + width*sx)
C19_PlacementAsCoded ==
    QuadBuilt => PlacedAt(rt.plane, rt.plane = YZ, rt.plane = XZ)

\* a glyph with rows and width has been placed in each of the two planes
\* that differ
C19_QuadInXZ == QuadBuilt /\ rt.plane = XZ /\ slot.rows > 0
C19_QuadInYZ == QuadBuilt /\ rt.plane = YZ /\ slot.width > 0

-----------------------------------------------------------------------------
\* the place of the first '@' in the map file (one past its end if none)
AtIndex(map) ==
    IF \E i \in 1..Len(map) : map[i] = "@"
      THEN CHOOSE i \in 1..Len(map) :
             map[i] = "@" /\ \A j \in 1..(i - 1) : map[j] # "@"
      ELSE Len(map) + 1

\* the newlines that precede the '@'
NewlinesBefore(map) ==
    Cardinality({i \in 1..(AtIndex(map) - 1) : map[i] = "\n"})

\* the characters that precede the '@' on its line
CharsOnLineBefore(map) ==
    Cardinality({i \in 1..(AtIndex(map) - 1) :
                   map[i] # "\n" /\ \A j \in i..(AtIndex(map) - 1) : map[j] # "\n"})

\* DrawWorld has scanned the map file for the '@'
Scanned == prog = "fly" /\ mpc \in {"drawLoop", "renderText"} /\ dw.library

\* render_text is running for the character that follows the '@'
FirstCharacter ==
    /\ Scanned /\ mpc = "renderText"
    /\ Len(dw.map) - Len(dw.rest) = AtIndex(dw.map) + 1

(* C20: after the first scan of the map file in the fly example's DrawWorld,
   playerZ is 4 times the number of characters that precede '@' on its line
   and playerX is minus 4 times the number of newlines that precede '@'
   (the model keeps both in fours); the character that follows '@' is passed
   to render_text with these as x and z. *)
C20_PlayerOffsets ==
    /\ Scanned =>
         /\ dw.playerZ = CharsOnLineBefore(dw.map)
         /\ dw.playerX = -NewlinesBefore(dw.map)
    /\ FirstCharacter =>
         /\ rt.x0 = Fx(4 * (-NewlinesBefore(dw.map)))
         /\ rt.z0 = Fx(4 * CharsOnLineBefore(dw.map))

\* what does hold: playerX is the unsigned value 2^32 - 4 * newlines (in
\* fours, 2^30 - newlines) whenever a newline precedes the '@'
C20_PlayerOffsetsUnsigned ==
    /\ Scanned =>
         /\ dw.playerZ = CharsOnLineBefore(dw.map)
         /\ dw.playerX = GLuint(-NewlinesBefore(dw.map))
         /\ dw.playerX >= 0
    /\ FirstCharacter =>
         /\ rt.x0 = GLuintToFloat(dw.playerX)
         /\ rt.z0 = GLuintToFloat(dw.playerZ)

\* the scan has passed a newline before it found the '@'
C20_NewlineBeforeAt == Scanned /\ NewlinesBefore(dw.map) > 0

\* the character that follows the '@' is being rendered
C20_FirstCharacterRendered == FirstCharacter /\ dw.playerZ > 0

-----------------------------------------------------------------------------
(* C22: the quit flag is monotone: in every execution of either example,
   once quit has become true (by a button callback, the console control
   handler, a render_text failure in DrawWorld, the 'on'-texture upload
   error or Render() returning false) no step of the program makes it false
   again before main returns. *)
C22_QuitMonotone == [][quit => quit']_vars

\* what does hold: the only step that takes quit back is myButtonCallback
\* run for a report with state 0
C22_OnlyCallbackClearsQuit == [][(quit /\ ~quit') => (mpc = "delivering" /\ reports # << >> /\ Head(reports) = 0)]_vars

\* quit is true and context.update() has a report with state 0 to deliver
C22_QuitBeforeRelease == quit /\ mpc = "delivering" /\ reports # << >> /\ Head(reports) = 0

-----------------------------------------------------------------------------
\* the fly example's render_text is about to hand its vertex vector to
\* glBufferData for the glyph in the slot
AtBufferData == prog = "fly" /\ pc = "bufferData"

\* the vector holds the six vertices of the glyph in the slot, and nothing
\* else
SixOfTheGlyph ==
    /\ Len(rt.vertexBufferData) = 6
    /\ rt.vertexBufferData =
         PlaneQuad(<< >>, rt.plane, slot, rt.x, rt.y, rt.z, rt.sx, rt.sy)

(* C23: for every value of the plane argument, the fly example's
   render_text never hands an empty vertex vector to glBufferData or
   glDrawArrays and never takes the address of element 0 of an empty
   vector: at each glBufferData call inside the glyph loop the vector holds
   exactly the six vertices of the current glyph. *)
C23_NeverAnEmptyVector ==
    /\ AtBufferData => SixOfTheGlyph
    /\ prog = "fly" => pc # "crashed"
    /\ (prog = "fly" /\ pc = "draw") => Len(rt.vertexBufferData) = 6

\* what does hold: with plane one of XY, XZ, YZ the vector holds the six
\* vertices of the glyph; with any other value it is empty
C23_SixInThePlanes ==
    /\ (AtBufferData /\ rt.plane \in {XY, XZ, YZ}) => SixOfTheGlyph
    /\ (AtBufferData /\ rt.plane \notin {XY, XZ, YZ}) =>
         rt.vertexBufferData = << >>
    /\ (prog = "fly" /\ pc = "crashed") => rt.plane \notin {XY, XZ, YZ}

\* an empty vector goes to glBufferData and on to glDrawArrays
C23_EmptyVectorDrawn ==
    /\ prog = "fly" /\ pc = "draw"
    /\ rt.vertexBufferData = << >>

-----------------------------------------------------------------------------
\* the entries of main()'s log that are GL calls of the static objects'
\* destructors
DestructorGlCalls ==
    {"handsCube.~Cube", "roomCube.~Cube", "sampleShader.~SampleShader"}

\* the entries of main()'s log that create or delete a GL object
GlObjectCalls ==
    {"glGenBuffers", "glGenVertexArrays", "glGenTextures",
     "glDeleteVertexArrays", "glDeleteBuffers", "glDeleteTextures",
     "roomCube.init", "handsCube.init"} \cup DestructorGlCalls

\* place i of the log lies after a successful OpenDisplay and before the
\* deletion of the RenderManager
DisplayOpenAt(i) ==
    /\ PlaceOf("OpenDisplay") # 0 /\ PlaceOf("OpenDisplay") < i
    /\ PlaceOf("Could not open display") = 0
    /\ PlaceOf("delete render") = 0 \/ i < PlaceOf("delete render")

\* main() is inside Render: a render callback, render_text or Cube::draw may
\* be running, and with them the lazy init of the shader and the cubes
InsideRender ==
    mpc \in {"setupDisplay", "setupEye", "drawWorld", "drawLoop", "renderText",
             "drawHead", "drawHandLeft", "drawHandRight", "renderEnd"}

(* C24: every GL call that creates, uses or deletes a GL object happens
   after OpenDisplay has succeeded and before the RenderManager is deleted,
   on every path through main, the lazy init of the static SampleShader and
   Cube objects and the deletions made by their destructors included. *)
C24_GlObjectsWhileDisplayOpen ==
    /\ \A i \in DOMAIN mainLog :
         mainLog[i] \in GlObjectCalls => DisplayOpenAt(i)
    /\ (InsideRender \/ pc # "idle") =>
         /\ render = "live"
         /\ PlaceOf("OpenDisplay") # 0 /\ PlaceOf("Could not open display") = 0

\* what does hold: every such call but those of the static destructors lies
\* between OpenDisplay and the deletion of the RenderManager; the destructors
\* run after main() has returned, that is after delete render, or inside
\* exit(1), where the RenderManager is still there
C24_AllButDestructors ==
    /\ \A i \in DOMAIN mainLog :
         /\ mainLog[i] \in GlObjectCalls \ DestructorGlCalls => DisplayOpenAt(i)
         /\ (mainLog[i] \in DestructorGlCalls /\ exitCode = "0") =>
              PlaceOf("delete render") \in 1..(i - 1)
         /\ (mainLog[i] \in DestructorGlCalls /\ exitCode # "0") =>
              exitCode = "1" /\ mpc = "exited" /\ render = "live"
    /\ (InsideRender \/ pc # "idle") =>
         /\ render = "live"
         /\ PlaceOf("OpenDisplay") # 0 /\ PlaceOf("Could not open display") = 0

\* main() has returned 0 and the destructors of an initialized cube and of
\* the initialized shader have made their GL calls
C24_DestructorsAfterDelete ==
    /\ mpc = "returned" /\ exitCode = "0" /\ render = "deleted"
    /\ PlaceOf("handsCube.~Cube") > PlaceOf("delete render")
    /\ PlaceOf("sampleShader.~SampleShader") > PlaceOf("delete render")

\* exit(1) has run the destructor of an initialized cube with the
\* RenderManager not deleted
C24_DestructorsInsideExit ==
    /\ mpc = "exited" /\ render = "live"
    /\ PlaceOf("handsCube.~Cube") # 0


-----------------------------------------------------------------------------
(* The superbuild *)

\* the configure run the user started took the superbuild branch
SuperbuildOn == build.runs # << >> /\ build.runs[1].superbuild

InstallDir == TopBinaryDir \o <<"INSTALL">>

\* what OSVRInstaller waits for
Prerequisites == {"OSVR-RenderManager", "OSVR-Core", "libfunctionality",
                  "jsoncpp", "glew", "sdl2", "submodule_init"}

RECURSIVE DependsClosure(_, _)
DependsClosure(ts, n) ==
    IF n = 0 THEN ts
    ELSE DependsClosure(ts \cup UNION {build.projects[t].depends : t \in ts},
                        n - 1)

\* every step that could run has run: each target is installed, has failed
\* or waits for one that failed
BuildOver ==
    \/ build.stage \in {"installed", "failed"}
    \/ /\ build.stage = "superbuild"
       /\ \A t \in Targets :
            build.step[t] \in {"installed", "failed"} \/ ~Ready(t)

RecursionStops ==
    /\ build.included = 1
    /\ Len(build.runs) <= 2
    /\ \A i \in 2..Len(build.runs) :
         /\ ~build.runs[i].superbuild
         /\ build.runs[i].depth = 1
         /\ build.runs[i].prefix = InstallDir

ConfiguredOff ==
    \A t \in Targets :
       ~build.projects[t].custom =>
          /\ Lookup(build.projects[t].args, "USE_SUPERBUILD", "unset") = "OFF"
          /\ build.projects[t].installDir = InstallDir

InnerAfterPrerequisites ==
    /\ DependsClosure(build.projects["OSVRInstaller"].depends, 3) = Prerequisites
    /\ build.step["OSVRInstaller"] # "declared" =>
          \A d \in Prerequisites : build.step[d] = "installed"

InstalledInInstall ==
    \A t \in Targets : build.prefix[t] # NoDir => build.prefix[t] = InstallDir

SuperbuildSafe ==
    SuperbuildOn => /\ RecursionStops
                    /\ ConfiguredOff
                    /\ InnerAfterPrerequisites
                    /\ InstalledInInstall

(* C21: configuring with USE_SUPERBUILD=ON ends with Superbuild.cmake      *)
(* included once and the top-level file returned; every external project,  *)
(* OSVRInstaller (this source tree again) included, is configured with     *)
(* USE_SUPERBUILD=OFF, so that CMakeLists.txt is configured once more, at  *)
(* depth one, and not as a superbuild; OSVRInstaller starts only when      *)
(* OSVR-RenderManager, OSVR-Core, libfunctionality, jsoncpp, glew, sdl2    *)
(* and submodule_init are installed; everything is installed into INSTALL  *)
(* under the build directory; and the build comes to an end.               *)
C21_SuperbuildTerminates ==
    /\ []SuperbuildSafe
    /\ (build.stage = "start" /\ USE_SUPERBUILD(build.cache) = "ON")
          ~> (build.stage = "superbuild" /\ SuperbuildOn)
    /\ SuperbuildOn ~> BuildOver

\* the examples of the inner build are installed, after everything else
C21_InnerBuildInstalled ==
    /\ SuperbuildOn
    /\ Len(build.runs) = 2
    /\ build.step["OSVRInstaller"] = "installed"
    /\ build.prefix["OSVRInstaller"] = InstallDir
    /\ \A d \in Prerequisites : build.prefix[d] = InstallDir \/ d = "submodule_init"

\* the safety part on its own
C21_SuperbuildSafeAlways == SuperbuildSafe

\* a build that ends because a prerequisite failed: the inner build never
\* starts
C21_EndsWithoutInnerBuild ==
    /\ SuperbuildOn
    /\ BuildOver
    /\ build.step["OSVRInstaller"] = "declared"
    /\ build.step["glew"] = "failed"

=============================================================================
